---- MODULE Spec2Model ----
(***************************************************************************)
(* Subduction core: the layer store (struct-of-arrays arena with           *)
(* generational handles, topology, dirty channels) and its evaluator, and  *)
(* the frame scheduler (pipeline depth adaptation, build-cost average).    *)
(*                                                                         *)
(* Values.  A Transform3d is modelled on the sub-family of 4x4 matrices    *)
(* translation(t,0,0) * scale(s,1,1), written [s, t] (the map x -> s*x+t); *)
(* their matrix product is computed by Mul.  An opacity is a dyadic        *)
(* fraction 1/d (exact in f32), written as its denominator d; the product  *)
(* of 1/a and 1/b is 1/(a*b).                                              *)
(***************************************************************************)
EXTENDS Integers, Sequences, FiniteSets, TLC

\* ---------------------------------------------------------------- bounds
MaxSlots == 3
MaxCreates == 4
MaxSteps == 8
MaxReportSteps == 7
MaxXfScale == 8
MaxOpacityDen == 128
\* Scheduler: depths and thresholds a configuration is drawn from, the cap on
\* the streak counters, and the largest tick value (standing for u64::MAX).
MaxDepth == 3
MaxThreshold == 2
MaxCount == 3
MaxTicks == 3
\* Recorder: the widths in bytes of a u32 and of a u64 field, the number of
\* sink calls of a recording and of next calls on a decoder.
U32Bytes == 2
U64Bytes == 3
MaxEvents == 2
MaxNexts == 4
\* Heap: the calls of a run, and the smallest block a Vec of u32 takes.
MaxHeapSteps == 6
MinNonZeroCap == 4
\* Queue: the capacities asked for, and the pushes and pops of a run.
MaxCapacity == 3
MaxPushes == 5
MaxPops == 4
\* Sync tracker: the ring sizes N, and the samples of a run.
MaxRing == 3
MaxObserves == 4
\* Clock: the host ticks and media seconds observed, and the updates of a run.
MaxHost == 2
MaxMedia == 2
MaxUpdates == 3
\* Frame loop: the frames of a run.
MaxFrames == 5
\* RafLoop: the start and stop calls of a run, and the animation frames.
MaxRafCalls == 4
MaxAnimationFrames == 3

\* ------------------------------------------------------- program constants
\* u32::MAX, the "no layer" sentinel; written as the same 32-bit pattern read
\* as a signed word, which no slot index equals.
INVALID == -1

TRANSFORM == 0
OPACITY == 1
CLIP == 2
CONTENT == 3
TOPOLOGY == 4
Channels == {TRANSFORM, OPACITY, CLIP, CONTENT, TOPOLOGY}

IDENTITY == [s |-> 1, t |-> 0]

Mul(a, b) == [s |-> a.s * b.s, t |-> a.s * b.t + a.t]

OpacityMul(a, b) == a * b

RECURSIVE Pow(_, _)
Pow(b, e) == IF e = 0 THEN 1 ELSE b * Pow(b, e - 1)

\* The values a caller passes: each slot has its own non-identity transform
\* and its own opacity below 1, so that every factor of a product is visible.
XfInputs(idx) == {IDENTITY, [s |-> 2, t |-> Pow(16, idx)]}
OpacityInputs(idx) == {1, Pow(2, Pow(2, idx))}
ClipInputs == {"None", "Rect"}
ContentInputs == {"None", "Surface"}

VARIABLES
    len, parent, first_child, next_sibling, prev_sibling,
    local_transform, local_opacity, clip, content, flags,
    world_transform, effective_opacity, effective_hidden,
    generation, free_list,
    dirty, deps,
    traversal_order, traversal_dirty,
    pending_added, pending_removed,
    changes, last,
    issued, destroyed, owed, listed, tally, since, peak, steps,
    scheduler, frame_plan, runs,
    present_hints, pending, present_feedback,
    sink, sunk, decoder, fed, yielded,
    capacity, allocs,
    queue, requested, pushed, popped,
    tracker, sync_report, seeded, observed,
    clock, twin, built, updates, answer,
    on_tick, frames, late,
    presenter,
    raf, browser, in_callback, delivered, raf_calls

topoVars == <<parent, first_child, next_sibling, prev_sibling>>
propVars == <<local_transform, local_opacity, clip, content, flags>>
computedVars == <<world_transform, effective_opacity, effective_hidden>>
allocVars == <<len, generation, free_list>>
trackerVars == <<dirty, deps>>
cacheVars == <<traversal_order, traversal_dirty>>
lifecycleVars == <<pending_added, pending_removed>>
storeVars == <<topoVars, propVars, computedVars, allocVars, trackerVars,
               cacheVars, lifecycleVars>>
ghostVars == <<issued, destroyed, owed, listed, tally, since, peak>>
schedVars == <<scheduler, frame_plan, runs>>
timingVars == <<present_hints, pending, present_feedback>>
recorderVars == <<sink, sunk, decoder, fed, yielded>>
heapVars == <<capacity, allocs>>
queueVars == <<queue, requested, pushed, popped>>
\* Everything next to the store and the scheduler.
syncVars == <<tracker, sync_report, seeded, observed>>
clockVars == <<clock, twin, built, updates, answer>>
loopVars == <<on_tick, frames, late>>
presenterVars == <<presenter>>
rafVars == <<raf, browser, in_callback, delivered, raf_calls>>
lateVars == <<clockVars, loopVars, presenterVars, rafVars>>
\* Everything next to the store and the scheduler.
restVars == <<timingVars, recorderVars, heapVars, queueVars, syncVars, lateVars>>
vars == <<storeVars, changes, last, ghostVars, steps, schedVars, restVars>>

\* ------------------------------------------------------------- Vec helpers
Slots == 0 .. (len - 1)

Push(f, n, v) == [i \in 0 .. n |-> IF i < n THEN f[i] ELSE v]

Contains(seq, x) == \E i \in 1 .. Len(seq) : seq[i] = x

Range(seq) == {seq[i] : i \in 1 .. Len(seq)}

\* A pop that hands out the last element and leaves it in the Vec.
Pop_kept(seq) == seq

Pop(seq) == SubSeq(seq, 1, Len(seq) - 1)

MinOf(S) == CHOOSE x \in S : \A y \in S : x <= y

LayerId(idx, gen) == [idx |-> idx, generation |-> gen]

\* ----------------------------------------------------------- DirtyTracker
\* deps[ch] is the set of edges <<from, to>>: `from` depends on `to`.
RECURSIVE DependentsFrom(_, _, _)
DependentsFrom(E, frontier, seen) ==
    LET next == {e[1] : e \in {x \in E : x[2] \in frontier}} \ seen
    IN  IF next = {} THEN seen ELSE DependentsFrom(E, next, seen \cup next)

\* Every key that transitively depends on a key of K (K excluded unless reached).
Dependents(E, K) == DependentsFrom(E, K, {})

Affected(E, K) == K \cup Dependents(E, K)

Mark(d, key, ch) == [d EXCEPT ![ch] = @ \cup {key}]

MarkEager(d, E, key, ch) == [d EXCEPT ![ch] = @ \cup Affected(E[ch], {key})]

WouldCycle(E, from, to) == from = to \/ to \in Dependents(E, {from})

AddDependency(E, from, to, ch) ==
    IF WouldCycle(E[ch], from, to) THEN E
    ELSE [E EXCEPT ![ch] = @ \cup {<<from, to>>}]

RemoveDependency(E, from, to, ch) == [E EXCEPT ![ch] = @ \ {<<from, to>>}]

RemoveKeyDirty(d, key) == [ch \in Channels |-> d[ch] \ {key}]

RemoveKeyDeps(E, key) ==
    [ch \in DOMAIN E |-> {e \in E[ch] : e[1] # key /\ e[2] # key}]

\* Keys of S in dependency order (a key after every key of S it depends on),
\* the smallest ready key first.
RECURSIVE TopoOrder(_, _)
TopoOrder(S, E) ==
    IF S = {} THEN <<>>
    ELSE LET ready == {k \in S : \A e \in E : e[1] = k => e[2] \notin S}
             k == MinOf(ready)
         IN  <<k>> \o TopoOrder(S \ {k}, E)

DrainAffected(d, E, ch) == TopoOrder(Affected(E[ch], d[ch]), E[ch])

DrainLocal(d, ch) == TopoOrder(d[ch], {})


\* ------------------------------------------------------------- LayerStore
EmptyVec == [i \in {} |-> 0]

NoChanges ==
    [transforms |-> <<>>, opacities |-> <<>>, clips |-> <<>>, content |-> <<>>,
     hidden |-> <<>>, unhidden |-> <<>>, added |-> <<>>, removed |-> <<>>,
     topology_changed |-> FALSE]

NothingOwed == [direct |-> [ch \in {TRANSFORM, OPACITY, CLIP, CONTENT} |-> {}],
                inherited |-> [ch \in {TRANSFORM, OPACITY} |-> {}],
                moved |-> {}]

DefaultFlags == [hidden |-> FALSE]

\* -------------------------------------------------------------- scheduler
\* Option<T>.
Some(x) == [some |-> TRUE, value |-> x]
None == [some |-> FALSE]

\* A ratio num/den, for the f32 configuration values.
Ratio(n, d) == [num |-> n, den |-> d]

Fixed == [kind |-> "Fixed"]
Adaptive(k, r) == [kind |-> "Adaptive", miss_threshold |-> k, recovery_threshold |-> r]

\* SchedulerConfig::macos().
macos ==
    [initial_depth |-> 2, min_depth |-> 1, max_depth |-> 3,
     ema_alpha |-> Ratio(1, 5), safety_multiplier |-> Ratio(3, 2),
     nominal_latency |-> 0, degradation_policy |-> Adaptive(3, 10)]

\* SchedulerConfig::web(); the nominal latency of 16 ms is the scaled 2 ticks
\* of Configs.
web ==
    [initial_depth |-> 2, min_depth |-> 1, max_depth |-> 3,
     ema_alpha |-> Ratio(3, 20), safety_multiplier |-> Ratio(2, 1),
     nominal_latency |-> 2, degradation_policy |-> Adaptive(3, 10)]

\* The configurations a scheduler is built with: every depth triple, ordered or
\* not, every pair of thresholds from 0 on, and the Fixed policy.
Policies ==
    {Fixed} \cup {Adaptive(k, r) : k \in 0 .. MaxThreshold, r \in 0 .. MaxThreshold}

Configs ==
    {[initial_depth |-> i, min_depth |-> lo, max_depth |-> hi,
      ema_alpha |-> Ratio(1, 5), safety_multiplier |-> Ratio(3, 2),
      nominal_latency |-> 2, degradation_policy |-> pol] :
        i \in 1 .. MaxDepth, lo \in 1 .. MaxDepth, hi \in 1 .. MaxDepth,
        pol \in Policies}

Ema_new(alpha) == [value |-> 0, alpha |-> alpha, initialized |-> FALSE]

\* Ema::update.  The f32 blend alpha*sample + (1-alpha)*value, alpha in [0, 1],
\* lies between the old value and the sample; the tick values it can take
\* there are all kept.
Ema_update(ema, sample) ==
    IF ema.initialized
    THEN {[ema EXCEPT !.value = v] :
              v \in (IF sample < ema.value THEN sample .. ema.value
                     ELSE ema.value .. sample)}
    ELSE {[ema EXCEPT !.value = sample, !.initialized = TRUE]}

saturating_duration_since(later, earlier) ==
    IF later >= earlier THEN later - earlier ELSE 0

checked_add(t, d) == IF t + d > MaxTicks THEN None ELSE Some(t + d)

\* (value * multiplier) as u64: truncated, and saturating at the largest u64.
SafetyMargin(value, multiplier) ==
    LET m == (value * multiplier.num) \div multiplier.den
    IN  IF m > MaxTicks THEN MaxTicks ELSE m

Scheduler_new(config) ==
    [config |-> config,
     pipeline_depth |-> config.initial_depth,
     build_cost_ema |-> Ema_new(config.ema_alpha),
     safety_margin_ticks |-> 0,
     consecutive_misses |-> 0,
     consecutive_hits |-> 0]

\* The Some(true) arm that leaves the hit counter as it is.
OnMissed_keeping_hits(s, miss_threshold) ==
    LET s1 == [s EXCEPT !.consecutive_misses = @ + 1]
    IN  IF s1.consecutive_misses >= miss_threshold
           /\ s1.pipeline_depth < s1.config.max_depth
        THEN [s1 EXCEPT !.pipeline_depth = @ + 1, !.consecutive_misses = 0]
        ELSE s1

\* The Some(true) arm without the comparison with max_depth.
OnMissed_unclamped(s, miss_threshold) ==
    LET s1 == [s EXCEPT !.consecutive_misses = @ + 1, !.consecutive_hits = 0]
    IN  IF s1.consecutive_misses >= miss_threshold
        THEN [s1 EXCEPT !.pipeline_depth = @ + 1, !.consecutive_misses = 0]
        ELSE s1

\* The Some(true) arm of observe.
OnMissed(s, miss_threshold) ==
    LET s1 == [s EXCEPT !.consecutive_misses = @ + 1, !.consecutive_hits = 0]
    IN  IF s1.consecutive_misses >= miss_threshold
           /\ s1.pipeline_depth < s1.config.max_depth
        THEN [s1 EXCEPT !.pipeline_depth = @ + 1, !.consecutive_misses = 0]
        ELSE s1

\* The Some(false) arm that leaves the miss counter as it is.
OnHit_keeping_misses(s, recovery_threshold) ==
    LET s1 == [s EXCEPT !.consecutive_hits = @ + 1]
    IN  IF s1.consecutive_hits >= recovery_threshold
           /\ s1.pipeline_depth > s1.config.min_depth
        THEN [s1 EXCEPT !.pipeline_depth = @ - 1, !.consecutive_hits = 0]
        ELSE s1

\* The Some(false) arm of observe.
OnHit(s, recovery_threshold) ==
    LET s1 == [s EXCEPT !.consecutive_hits = @ + 1, !.consecutive_misses = 0]
    IN  IF s1.consecutive_hits >= recovery_threshold
           /\ s1.pipeline_depth > s1.config.min_depth
        THEN [s1 EXCEPT !.pipeline_depth = @ - 1, !.consecutive_hits = 0]
        ELSE s1

\* The None arm of observe.
OnUnknown(s) == [s EXCEPT !.consecutive_misses = 0, !.consecutive_hits = 0]

\* The match on missed_deadline, taken whatever the policy is.
AdaptDepth_ignoring_policy(s, missed_deadline) ==
    IF missed_deadline = Some(TRUE) THEN OnMissed(s, 1)
    ELSE IF missed_deadline = Some(FALSE) THEN OnHit(s, 1)
    ELSE OnUnknown(s)

\* The match on the degradation policy.
AdaptDepth(s, missed_deadline) ==
    LET policy == s.config.degradation_policy
    IN  IF policy.kind = "Adaptive"
        THEN IF missed_deadline = Some(TRUE) THEN OnMissed(s, policy.miss_threshold)
             ELSE IF missed_deadline = Some(FALSE) THEN OnHit(s, policy.recovery_threshold)
             ELSE OnUnknown(s)
        ELSE s

NoPlan == [semantic_time |-> 0, present_time |-> None, commit_deadline |-> 0,
           pipeline_depth |-> 0, output |-> 0, frame_index |-> 0]

NoRuns == [misses |-> 0, hits |-> 0]

observe(feedback) ==
    LET build_ticks == saturating_duration_since(feedback.submitted_at,
                                                 feedback.build_start)
    IN  /\ \E ema \in Ema_update(scheduler.build_cost_ema, build_ticks) :
              LET s1 == [scheduler EXCEPT !.build_cost_ema = ema]
                  s2 == [s1 EXCEPT !.safety_margin_ticks =
                             SafetyMargin(ema.value, s1.config.safety_multiplier)]
              IN  scheduler' = AdaptDepth(s2, feedback.missed_deadline)
        /\ UNCHANGED frame_plan

\* plan that reports the depth the scheduler was built with.
plan_initial_depth(tick, hints) ==
    LET target_present == IF hints.desired_present.some THEN hints.desired_present
                          ELSE tick.predicted_present
        ts == IF tick.confidence \in {"Predictive", "Estimated"}
              THEN IF target_present.some THEN target_present.value ELSE tick.now
              ELSE LET sum == checked_add(tick.now, scheduler.config.nominal_latency)
                   IN  IF sum.some THEN sum.value ELSE tick.now
        present_time == IF tick.confidence \in {"Predictive", "Estimated"}
                        THEN target_present ELSE None
    IN  /\ frame_plan' = [semantic_time |-> ts,
                          present_time |-> present_time,
                          commit_deadline |-> hints.latest_commit,
                          pipeline_depth |-> scheduler.config.initial_depth,
                          output |-> tick.output,
                          frame_index |-> tick.frame_index]
        /\ UNCHANGED scheduler

plan(tick, hints) ==
    LET target_present == IF hints.desired_present.some THEN hints.desired_present
                          ELSE tick.predicted_present
        ts == IF tick.confidence \in {"Predictive", "Estimated"}
              THEN IF target_present.some THEN target_present.value ELSE tick.now
              ELSE LET sum == checked_add(tick.now, scheduler.config.nominal_latency)
                   IN  IF sum.some THEN sum.value ELSE tick.now
        present_time == IF tick.confidence \in {"Predictive", "Estimated"}
                        THEN target_present ELSE None
    IN  /\ frame_plan' = [semantic_time |-> ts,
                          present_time |-> present_time,
                          commit_deadline |-> hints.latest_commit,
                          pipeline_depth |-> scheduler.pipeline_depth,
                          output |-> tick.output,
                          frame_index |-> tick.frame_index]
        /\ UNCHANGED scheduler

\* ----------------------------------------------------------------- timing
checked_sub(t, d) == IF t < d THEN None ELSE Some(t - d)

\* compute_present_hints with a subtraction that stops at zero.
compute_present_hints_saturating(tick, safety_margin) ==
    [desired_present |-> tick.predicted_present,
     latest_commit |-> IF tick.predicted_present.some
                       THEN saturating_duration_since(tick.predicted_present.value,
                                                      safety_margin)
                       ELSE tick.now]

\* compute_present_hints of the Apple and Wayland backends.
compute_present_hints(tick, safety_margin) ==
    LET desired_present == tick.predicted_present
        diff == IF desired_present.some
                THEN checked_sub(desired_present.value, safety_margin)
                ELSE None
    IN  [desired_present |-> desired_present,
         latest_commit |-> IF diff.some THEN diff.value ELSE tick.now]

\* PresentFeedback::new that counts a frame presented or committed exactly on
\* time as missed.
PresentFeedback_new_inclusive(hints, build_start, submitted_at, actual_present) ==
    LET expected_present == hints.desired_present
    IN  [submitted_at |-> submitted_at,
         build_start |-> build_start,
         expected_present |-> expected_present,
         actual_present |-> actual_present,
         missed_deadline |->
             IF actual_present.some /\ expected_present.some
             THEN Some(actual_present.value >= expected_present.value)
             ELSE Some(submitted_at >= hints.latest_commit)]

PresentFeedback_new(hints, build_start, submitted_at, actual_present) ==
    LET expected_present == hints.desired_present
    IN  [submitted_at |-> submitted_at,
         build_start |-> build_start,
         expected_present |-> expected_present,
         actual_present |-> actual_present,
         missed_deadline |->
             IF actual_present.some /\ expected_present.some
             THEN Some(actual_present.value > expected_present.value)
             ELSE Some(submitted_at > hints.latest_commit)]

\* resolve that drops the actual present time.
resolve_commit_only(self, actual_present) ==
    PresentFeedback_new(self.hints, self.build_start, self.submitted_at, None)

\* PendingFeedback::resolve.
resolve(self, actual_present) ==
    PresentFeedback_new(self.hints, self.build_start, self.submitted_at,
                        actual_present)

TimingNew == present_hints = None /\ pending = None /\ present_feedback = None

\* ================================================================ recorder
\* subduction_debug::recorder.  A byte is a number in 0..255.  A u32 field is
\* U32Bytes bytes wide and a u64 field U64Bytes bytes wide, little-endian;
\* usize is as wide as u64, so a slice can hold more than U32_MAX elements.
U32_MAX == Pow(256, U32Bytes) - 1

TAG_FRAME_TICK == 1
TAG_FRAME_PLAN == 2
TAG_PHASE_BEGIN == 3
TAG_PHASE_END == 4
TAG_SUBMIT == 5
TAG_PRESENT_FEEDBACK == 6
TAG_FRAME_SUMMARY == 7
TAG_LAYER_CHANGES_COUNT == 8
TAG_DAMAGE_RECTS_COUNT == 9

RECURSIVE to_le_bytes(_, _)
to_le_bytes(v, n) ==
    IF n = 0 THEN <<>> ELSE <<v % 256>> \o to_le_bytes(v \div 256, n - 1)

\* The same digits written most significant first.
RECURSIVE to_be_bytes(_, _)
to_be_bytes(v, n) ==
    IF n = 0 THEN <<>> ELSE to_be_bytes(v \div 256, n - 1) \o <<v % 256>>

RECURSIVE from_le_bytes(_)
from_le_bytes(b) ==
    IF b = <<>> THEN 0 ELSE Head(b) + 256 * from_le_bytes(Tail(b))

Min(a, b) == IF a <= b THEN a ELSE b

\* ---- RecorderSink: each writer is the bytes it pushes onto buf.
write_u8(v) == <<v>>

write_u32(v) == to_le_bytes(v, U32Bytes)

write_u64_be(v) == to_be_bytes(v, U64Bytes)

write_u64(v) == to_le_bytes(v, U64Bytes)

write_option_u64(v) ==
    IF v.some THEN write_u8(1) \o write_u64(v.value)
    ELSE write_u8(0) \o write_u64(0)

write_option_bool(v) ==
    IF ~v.some THEN write_u8(0)
    ELSE IF v.value THEN write_u8(2) ELSE write_u8(1)

write_confidence(c) ==
    CASE c = "Predictive" -> write_u8(0)
      [] c = "Estimated" -> write_u8(1)
      [] c = "PacingOnly" -> write_u8(2)

write_phase(p) ==
    CASE p = "Plan" -> write_u8(0)
      [] p = "Evaluate" -> write_u8(1)
      [] p = "Render" -> write_u8(2)
      [] p = "Submit" -> write_u8(3)

on_frame_tick(e) ==
    write_u8(TAG_FRAME_TICK) \o write_u64(e.frame_index) \o write_u32(e.output)
        \o write_u64(e.now) \o write_option_u64(e.predicted_present)
        \o write_option_u64(e.refresh_interval) \o write_confidence(e.confidence)

on_frame_plan(e) ==
    write_u8(TAG_FRAME_PLAN) \o write_u64(e.frame_index) \o write_u32(e.output)
        \o write_u64(e.semantic_time) \o write_option_u64(e.present_time)
        \o write_u64(e.commit_deadline) \o write_u8(e.pipeline_depth)
        \o write_u64(e.safety_margin_ticks)

on_phase_begin(e) ==
    write_u8(TAG_PHASE_BEGIN) \o write_u64(e.frame_index) \o write_phase(e.phase)
        \o write_u64(e.timestamp)

on_phase_end(e) ==
    write_u8(TAG_PHASE_END) \o write_u64(e.frame_index) \o write_phase(e.phase)
        \o write_u64(e.timestamp)

on_submit(e) ==
    write_u8(TAG_SUBMIT) \o write_u64(e.frame_index) \o write_u64(e.submitted_at)
        \o write_option_u64(e.expected_present)

on_present_feedback(e) ==
    write_u8(TAG_PRESENT_FEEDBACK) \o write_u64(e.frame_index)
        \o write_option_u64(e.actual_present)
        \o write_option_bool(e.missed_deadline)

on_frame_summary(e) ==
    write_u8(TAG_FRAME_SUMMARY) \o write_u64(e.frame_index) \o write_u32(e.output)
        \o write_confidence(e.confidence) \o write_u64(e.now)
        \o write_option_u64(e.present_time) \o write_u64(e.semantic_time)
        \o write_u64(e.deadline) \o write_u8(e.pipeline_depth)
        \o write_u64(e.plan_ticks) \o write_u64(e.eval_ticks)
        \o write_u64(e.render_ticks) \o write_u64(e.submit_ticks)
        \o write_u8(IF e.missed_deadline THEN 1 ELSE 0)

\* The slice is given by its length, the only thing the recorder reads of it.
on_layer_changes(frame_index, n_changes) ==
    write_u8(TAG_LAYER_CHANGES_COUNT) \o write_u64(frame_index)
        \o write_u32(Min(n_changes, U32_MAX))

on_damage_rects(frame_index, n_rects) ==
    write_u8(TAG_DAMAGE_RECTS_COUNT) \o write_u64(frame_index)
        \o write_u32(Min(n_rects, U32_MAX))

\* ---- DecodeIter.  A reader is the cursor, whether every read so far
\* succeeded (the `?` chain), and the values read; a failed read leaves the
\* cursor where the reads before it put it.
Reader(at) == [pos |-> at, ok |-> TRUE, vals |-> <<>>]

remaining(data, rd) == IF Len(data) >= rd.pos THEN Len(data) - rd.pos ELSE 0

\* A reader that takes what is left when fewer than n bytes are.
ReadBytes_short(data, rd, n) ==
    IF ~rd.ok THEN rd
    ELSE IF remaining(data, rd) < 1 THEN [rd EXCEPT !.ok = FALSE]
    ELSE [pos |-> Min(rd.pos + n, Len(data)), ok |-> TRUE,
          vals |-> Append(rd.vals,
                          SubSeq(data, rd.pos + 1, Min(rd.pos + n, Len(data))))]

ReadBytes(data, rd, n) ==
    IF ~rd.ok THEN rd
    ELSE IF remaining(data, rd) < n THEN [rd EXCEPT !.ok = FALSE]
    ELSE [pos |-> rd.pos + n, ok |-> TRUE,
          vals |-> Append(rd.vals, SubSeq(data, rd.pos + 1, rd.pos + n))]

\* The value read last, and the reader with v in its place.
Last(rd) == rd.vals[Len(rd.vals)]

SetLast(rd, v) == [rd EXCEPT !.vals[Len(rd.vals)] = v]

read_u8(data, rd) ==
    LET got == ReadBytes(data, rd, 1)
    IN IF got.ok THEN SetLast(got, Last(got)[1]) ELSE got

read_u32(data, rd) ==
    LET got == ReadBytes(data, rd, U32Bytes)
    IN IF got.ok THEN SetLast(got, from_le_bytes(Last(got))) ELSE got

read_u64(data, rd) ==
    LET got == ReadBytes(data, rd, U64Bytes)
    IN IF got.ok THEN SetLast(got, from_le_bytes(Last(got))) ELSE got

read_option_u64(data, rd) ==
    LET got == read_u64(data, read_u8(data, rd))
        n == Len(got.vals)
    IN IF got.ok
       THEN [got EXCEPT !.vals = Append(SubSeq(got.vals, 1, n - 2),
                                        IF got.vals[n - 1] # 0
                                        THEN Some(got.vals[n]) ELSE None)]
       ELSE got

read_option_bool(data, rd) ==
    LET got == read_u8(data, rd)
    IN IF got.ok
       THEN SetLast(got, IF Last(got) = 0 THEN None
                         ELSE IF Last(got) = 1 THEN Some(FALSE) ELSE Some(TRUE))
       ELSE got

read_confidence(data, rd) ==
    LET got == read_u8(data, rd)
    IN IF got.ok
       THEN SetLast(got, IF Last(got) = 0 THEN "Predictive"
                         ELSE IF Last(got) = 1 THEN "Estimated" ELSE "PacingOnly")
       ELSE got

read_phase(data, rd) ==
    LET got == read_u8(data, rd)
    IN IF got.ok
       THEN SetLast(got, IF Last(got) = 0 THEN "Plan"
                         ELSE IF Last(got) = 1 THEN "Evaluate"
                         ELSE IF Last(got) = 2 THEN "Render" ELSE "Submit")
       ELSE got

\* What a decode_* function leaves: the cursor and Some(event) or None.
Decoded(rd, event) == [pos |-> rd.pos, item |-> IF rd.ok THEN Some(event) ELSE None]

decode_frame_tick(data, at) ==
    LET rd == read_confidence(data, read_option_u64(data, read_option_u64(data,
                  read_u64(data, read_u32(data, read_u64(data, Reader(at)))))))
    IN Decoded(rd, [variant |-> "FrameTick",
                    e |-> [frame_index |-> rd.vals[1], output |-> rd.vals[2],
                           now |-> rd.vals[3], predicted_present |-> rd.vals[4],
                           refresh_interval |-> rd.vals[5],
                           confidence |-> rd.vals[6]]])

decode_frame_plan(data, at) ==
    LET rd == read_u64(data, read_u8(data, read_u64(data, read_option_u64(data,
                  read_u64(data, read_u32(data, read_u64(data, Reader(at))))))))
    IN Decoded(rd, [variant |-> "FramePlan",
                    e |-> [frame_index |-> rd.vals[1], output |-> rd.vals[2],
                           semantic_time |-> rd.vals[3], present_time |-> rd.vals[4],
                           commit_deadline |-> rd.vals[5],
                           pipeline_depth |-> rd.vals[6],
                           safety_margin_ticks |-> rd.vals[7]]])

decode_phase_begin(data, at) ==
    LET rd == read_u64(data, read_phase(data, read_u64(data, Reader(at))))
    IN Decoded(rd, [variant |-> "PhaseBegin",
                    e |-> [frame_index |-> rd.vals[1], phase |-> rd.vals[2],
                           timestamp |-> rd.vals[3]]])

decode_phase_end(data, at) ==
    LET rd == read_u64(data, read_phase(data, read_u64(data, Reader(at))))
    IN Decoded(rd, [variant |-> "PhaseEnd",
                    e |-> [frame_index |-> rd.vals[1], phase |-> rd.vals[2],
                           timestamp |-> rd.vals[3]]])

decode_submit(data, at) ==
    LET rd == read_option_u64(data, read_u64(data, read_u64(data, Reader(at))))
    IN Decoded(rd, [variant |-> "Submit",
                    e |-> [frame_index |-> rd.vals[1], submitted_at |-> rd.vals[2],
                           expected_present |-> rd.vals[3]]])

decode_present_feedback(data, at) ==
    LET rd == read_option_bool(data, read_option_u64(data, read_u64(data, Reader(at))))
    IN Decoded(rd, [variant |-> "PresentFeedback",
                    e |-> [frame_index |-> rd.vals[1], actual_present |-> rd.vals[2],
                           missed_deadline |-> rd.vals[3]]])

decode_frame_summary(data, at) ==
    LET rd == read_u8(data, read_u64(data, read_u64(data, read_u64(data,
                  read_u64(data, read_u8(data, read_u64(data, read_u64(data,
                  read_option_u64(data, read_u64(data, read_confidence(data,
                  read_u32(data, read_u64(data, Reader(at))))))))))))))
    IN Decoded(rd, [variant |-> "FrameSummary",
                    e |-> [frame_index |-> rd.vals[1], output |-> rd.vals[2],
                           confidence |-> rd.vals[3], now |-> rd.vals[4],
                           present_time |-> rd.vals[5], semantic_time |-> rd.vals[6],
                           deadline |-> rd.vals[7], pipeline_depth |-> rd.vals[8],
                           plan_ticks |-> rd.vals[9], eval_ticks |-> rd.vals[10],
                           render_ticks |-> rd.vals[11],
                           submit_ticks |-> rd.vals[12],
                           missed_deadline |-> rd.vals[13] # 0]])

decode_layer_changes_count(data, at) ==
    LET rd == read_u32(data, read_u64(data, Reader(at)))
    IN Decoded(rd, [variant |-> "LayerChangesCount",
                    frame_index |-> rd.vals[1], count |-> rd.vals[2]])

decode_damage_rects_count(data, at) ==
    LET rd == read_u32(data, read_u64(data, Reader(at)))
    IN Decoded(rd, [variant |-> "DamageRectsCount",
                    frame_index |-> rd.vals[1], count |-> rd.vals[2]])

\* Iterator::next on DecodeIter { data, pos: at }.
DecodeIter_next(data, at) ==
    LET tag == read_u8(data, Reader(at))
    IN IF ~tag.ok THEN [pos |-> tag.pos, item |-> None]
       ELSE CASE tag.vals[1] = TAG_FRAME_TICK -> decode_frame_tick(data, tag.pos)
              [] tag.vals[1] = TAG_FRAME_PLAN -> decode_frame_plan(data, tag.pos)
              [] tag.vals[1] = TAG_PHASE_BEGIN -> decode_phase_begin(data, tag.pos)
              [] tag.vals[1] = TAG_PHASE_END -> decode_phase_end(data, tag.pos)
              [] tag.vals[1] = TAG_SUBMIT -> decode_submit(data, tag.pos)
              [] tag.vals[1] = TAG_PRESENT_FEEDBACK ->
                    decode_present_feedback(data, tag.pos)
              [] tag.vals[1] = TAG_FRAME_SUMMARY -> decode_frame_summary(data, tag.pos)
              [] tag.vals[1] = TAG_LAYER_CHANGES_COUNT ->
                    decode_layer_changes_count(data, tag.pos)
              [] tag.vals[1] = TAG_DAMAGE_RECTS_COUNT ->
                    decode_damage_rects_count(data, tag.pos)
              [] OTHER -> [pos |-> tag.pos, item |-> None]

\* RecorderSink::new() with no decoder over its bytes and nothing recorded.
RecorderNew ==
    sink = <<>> /\ sunk = <<>> /\ decoder = None /\ fed = None /\ yielded = <<>>

\* ==================================================================== heap
\* The heap blocks behind the Vecs that evaluate_into fills: `capacity` holds
\* the capacity of each list of the caller's FrameChanges and of the store's
\* traversal_order, pending_added and pending_removed; `allocs` is the number
\* of allocations the last call made on them if it was evaluate_into.
ListFields ==
    {"transforms", "opacities", "clips", "content", "hidden", "unhidden",
     "added", "removed"}

\* Vec::new() and FrameChanges::default(): no block yet.
NoCapacity ==
    [changes |-> [f \in ListFields |-> 0], traversal_order |-> 0,
     pending_added |-> 0, pending_removed |-> 0]

Max(a, b) == IF a >= b THEN a ELSE b

\* Vec::push, for the elements n + 1 .. m of a Vec of length n: a push onto a
\* full Vec takes a new block of at least twice the capacity.
RECURSIVE Pushes(_, _, _)
Pushes(vec, n, m) ==
    IF n >= m THEN vec
    ELSE Pushes(IF n = vec.cap
                THEN [cap |-> Max(Max(2 * vec.cap, n + 1), MinNonZeroCap),
                      allocs |-> vec.allocs + 1]
                ELSE vec,
                n + 1, m)

\* Iterator::collect into a new Vec: no block for no element, else one block
\* that holds the elements.
Collected(items) ==
    IF items = <<>> THEN [cap |-> 0, allocs |-> 0]
    ELSE [cap |-> Max(Len(items), MinNonZeroCap), allocs |-> 1]

HeapNew == capacity = NoCapacity /\ allocs = 0

\* =================================================================== queue
\* subduction_backend_wayland::queue::BoundedQueue, the queue inside
\* PresentEventQueue and TickQueue (which forward every call to it).
BoundedQueue_with_capacity(cap) ==
    [items |-> <<>>, capacity |-> Max(cap, 1), dropped_count |-> 0]

\* push that keeps the oldest items and gives up the newest retained one.
push_dropping_newest(self, item) ==
    IF Len(self.items) = self.capacity
    THEN [self EXCEPT !.items = SubSeq(self.items, 1, Len(self.items) - 1) \o <<item>>,
                      !.dropped_count = self.dropped_count + 1]
    ELSE [self EXCEPT !.items = Append(self.items, item)]

push(self, item) ==
    LET kept == IF Len(self.items) = self.capacity
                THEN [self EXCEPT !.items = Tail(self.items),
                                  !.dropped_count = self.dropped_count + 1]
                ELSE self
    IN [kept EXCEPT !.items = Append(kept.items, item)]

\* The queue after pop, and what pop returns.
pop(self) ==
    IF self.items = <<>> THEN [queue |-> self, item |-> None]
    ELSE [queue |-> [self EXCEPT !.items = Tail(self.items)],
          item |-> Some(Head(self.items))]

BoundedQueue_len(self) == Len(self.items)

is_empty(self) == self.items = <<>>

dropped_count(self) == self.dropped_count

\* No queue built yet, nothing pushed or popped.
QueueNew == queue = None /\ requested = 0 /\ pushed = <<>> /\ popped = <<>>

\* ============================================================ sync harness
\* subduction_sync_harness::SyncTracker<N>.  Milliseconds are whole numbers;
\* the miss rate missed * 1000 / total is kept as that fraction.  The ring
\* deltas_ms is indexed from 0, as in the source.
SyncTracker_new(size, seed_delta_ms) ==
    [size |-> size, deltas_ms |-> [i \in 0..(size - 1) |-> seed_delta_ms],
     cursor |-> 0, total_frames |-> 0, missed_frames |-> 0]

Abs(x) == IF x < 0 THEN -x ELSE x

\* rate < limit, for the fraction rate and a whole limit.
RateBelow(rate, limit) == rate.num < limit * rate.den

grade_for(conf, phase_error_abs_ms, miss_rate_per_1000) ==
    LET th == CASE conf = "Predictive" -> <<16, 32, 50, 1, 5, 15>>
                [] conf = "Estimated" -> <<24, 45, 70, 3, 10, 25>>
                [] conf = "PacingOnly" -> <<35, 65, 100, 10, 30, 80>>
    IN IF phase_error_abs_ms < th[1] /\ RateBelow(miss_rate_per_1000, th[4]) THEN "A"
       ELSE IF phase_error_abs_ms < th[2] /\ RateBelow(miss_rate_per_1000, th[5])
       THEN "B"
       ELSE IF phase_error_abs_ms < th[3] /\ RateBelow(miss_rate_per_1000, th[6])
       THEN "C"
       ELSE "D"

\* The tracker after observe up to the write into the ring; with N = 0 the
\* index self.cursor % N does not exist and the call panics there.
CountFrame(self) == [self EXCEPT !.total_frames = self.total_frames + 1]

\* The tracker after observe (N > 0), and the report it returns.
SyncTracker_observe(self, sample) ==
    LET counted == CountFrame(self)
        written == [counted EXCEPT
                        !.deltas_ms[self.cursor % self.size] = sample.frame_delta_ms,
                        !.cursor = (self.cursor + 1) % self.size]
        after == IF sample.hard_miss \/ sample.soft_miss
                 THEN [written EXCEPT !.missed_frames = written.missed_frames + 1]
                 ELSE written
        miss_rate == IF after.total_frames = 0 THEN Ratio(0, 1)
                     ELSE Ratio(after.missed_frames * 1000, after.total_frames)
    IN [tracker |-> after,
        report |-> [grade |-> grade_for(sample.confidence,
                                        Abs(sample.phase_error_ms), miss_rate),
                    miss_rate_per_1000 |-> miss_rate,
                    phase_error_ms |-> sample.phase_error_ms,
                    total_frames |-> after.total_frames,
                    missed_frames |-> after.missed_frames]]

\* frame_deltas that copies the ring from its first slot.
frame_deltas_unrotated(self) ==
    [i \in 0..(self.size - 1) |-> self.deltas_ms[i]]

frame_deltas(self) ==
    [i \in 0..(self.size - 1) |-> self.deltas_ms[(self.cursor + i) % self.size]]

LEVELS == <<" ", ".", ":", "-", "=", "+", "*", "#", "%", "@">>

Clamp(v, lo, hi) == IF v < lo THEN lo ELSE IF v > hi THEN hi ELSE v

\* (t * 9 + 0.5) as usize for t = (v - min) / (max - min), v clamped; with
\* max = min, t is 0/0 = NaN and the cast gives 0.  Asked with min < = max.
Level(v, min_ms, max_ms) ==
    IF max_ms = min_ms THEN 0
    ELSE (2 * (Len(LEVELS) - 1) * (Clamp(v, min_ms, max_ms) - min_ms)
              + (max_ms - min_ms)) \div (2 * (max_ms - min_ms))

sparkline_ascii(self, min_ms, max_ms) ==
    [i \in 0..(self.size - 1) |->
        LEVELS[Level(self.deltas_ms[(self.cursor + i) % self.size],
                     min_ms, max_ms) + 1]]

\* No tracker built yet.
SyncNew == tracker = None /\ sync_report = None /\ seeded = 0 /\ observed = <<>>

\* ------------------------------------------------------------ AffineClock
\* The f64 fields are exact fractions num/den in lowest terms, den > 0.
RECURSIVE Gcd(_, _)
Gcd(a, b) == IF b = 0 THEN a ELSE Gcd(b, a % b)

Frac(n, d) ==
    LET g == Gcd(Abs(n), Abs(d))
        sgn == IF d < 0 THEN -1 ELSE 1
    IN  [num |-> (sgn * n) \div g, den |-> (sgn * d) \div g]

Whole(n) == Frac(n, 1)

FAdd(a, b) == Frac(a.num * b.den + b.num * a.den, a.den * b.den)
FSub(a, b) == Frac(a.num * b.den - b.num * a.den, a.den * b.den)
FMul(a, b) == Frac(a.num * b.num, a.den * b.den)
FDiv(a, b) == Frac(a.num * b.den, a.den * b.num)

AffineClock_new(initial_rate, rate_alpha, offset_alpha) ==
    [rate |-> initial_rate,
     offset |-> Whole(0),
     rate_alpha |-> rate_alpha,
     offset_alpha |-> offset_alpha,
     initialized |-> FALSE,
     last_host |-> 0,
     last_media |-> Whole(0)]

media_time_at(self, host_ticks) ==
    IF ~self.initialized THEN None
    ELSE Some(FAdd(FMul(self.rate, Whole(host_ticks)), self.offset))

AffineClock_update(self, host_ticks, media_time) ==
    IF ~self.initialized
    THEN [self EXCEPT !.offset = FSub(media_time, FMul(self.rate, Whole(host_ticks))),
                      !.last_host = host_ticks,
                      !.last_media = media_time,
                      !.initialized = TRUE]
    ELSE LET dt_host == IF host_ticks >= self.last_host
                        THEN host_ticks - self.last_host ELSE 0
             dt_media == FSub(media_time, self.last_media)
             observed_rate == FDiv(dt_media, Whole(dt_host))
             smoothed == IF dt_host > 0
                         THEN FAdd(FMul(self.rate_alpha, observed_rate),
                                   FMul(FSub(Whole(1), self.rate_alpha), self.rate))
                         ELSE self.rate
             predicted_media == FAdd(FMul(smoothed, Whole(host_ticks)), self.offset)
             offset_error == FSub(media_time, predicted_media)
         IN  [self EXCEPT !.rate = smoothed,
                          !.offset = FAdd(self.offset,
                                          FMul(self.offset_alpha, offset_error)),
                          !.last_host = host_ticks,
                          !.last_media = media_time]

AffineClock_reset(self) ==
    [self EXCEPT !.offset = Whole(0),
                 !.initialized = FALSE,
                 !.last_host = 0,
                 !.last_media = Whole(0)]

\* No clock built yet.
ClockNew == clock = None /\ twin = None /\ built = None /\ updates = 0 /\ answer = None

\* ---------------------------------------------------- web frame loop
\* subduction_backend_web::compute_present_hints: the margin is not used.
web_compute_present_hints(tick, safety_margin) ==
    [desired_present |-> None, latest_commit |-> tick.now]

\* The tick callback of the web example is not running; no frame was built.
LoopNew ==
    /\ on_tick = [pc |-> "idle", tick |-> None, hints |-> None,
                  build_start |-> 0, feedback |-> None]
    /\ frames = 0
    /\ late = TRUE

\* ---------------------------------------------------------- DomPresenter
\* `elements` is the Vec<Option<HtmlElement>>, slot idx at position idx + 1;
\* an element is the number of elements created before it.  `container` lists
\* the container's child elements in document order and `display` holds, for
\* every element created, whether its display property is "none".  The other
\* style properties (transform, opacity, clip-path) are written and never read
\* and are left out.
DomPresenter_new == [elements |-> <<>>, container |-> <<>>, display |-> <<>>]

get_element(self, idx) ==
    IF idx < Len(self.elements) THEN self.elements[idx + 1] ELSE None

\* el.remove() on the element take_element hands out, if any.
RemoveElement(self, idx) ==
    LET el == get_element(self, idx)
    IN  IF ~el.some THEN self
        ELSE [self EXCEPT !.elements[idx + 1] = None,
                          !.container = SelectSeq(@, LAMBDA c : c # el.value)]

put_element(self, idx, el) ==
    LET grown == IF Len(self.elements) <= idx
                 THEN self.elements
                          \o [i \in 1 .. (idx + 1 - Len(self.elements)) |-> None]
                 ELSE self.elements
    IN  [self EXCEPT !.elements = [grown EXCEPT ![idx + 1] = Some(el)]]

\* One pass of the additions loop: a new <div>, hidden if the slot is, is
\* appended to the container and stored at the slot.
AddElement(self, idx, ehidden) ==
    LET el == Len(self.display)
        made == [self EXCEPT !.display = Append(@, ehidden[idx]),
                             !.container = Append(@, el)]
    IN  put_element(made, idx, el)

RECURSIVE Removals(_, _, _)
Removals(self, removed, i) ==
    IF i > Len(removed) THEN self
    ELSE Removals(RemoveElement(self, removed[i]), removed, i + 1)

RECURSIVE Additions(_, _, _, _)
Additions(self, added, i, ehidden) ==
    IF i > Len(added) THEN self
    ELSE Additions(AddElement(self, added[i], ehidden), added, i + 1, ehidden)

\* The hidden and the unhidden loop: display is set on the slots that hold an
\* element.
RECURSIVE SetDisplay(_, _, _, _)
SetDisplay(self, list, i, none) ==
    IF i > Len(list) THEN self
    ELSE LET el == get_element(self, list[i])
         IN  SetDisplay(IF el.some
                        THEN [self EXCEPT !.display[el.value + 1] = none]
                        ELSE self,
                        list, i + 1, none)

\* The reorder loop: appending a child again moves it to the end.
RECURSIVE Reorder(_, _, _)
Reorder(self, order, i) ==
    IF i > Len(order) THEN self
    ELSE LET el == get_element(self, order[i])
         IN  Reorder(IF el.some
                     THEN [self EXCEPT !.container =
                               Append(SelectSeq(@, LAMBDA c : c # el.value), el.value)]
                     ELSE self,
                     order, i + 1)

\* DomPresenter::apply, given the store's traversal_order and effective_hidden.
apply(self, order, ehidden, ch) ==
    LET p1 == Removals(self, ch.removed, 1)
        p2 == Additions(p1, ch.added, 1, ehidden)
        p5 == SetDisplay(SetDisplay(p2, ch.hidden, 1, TRUE), ch.unhidden, 1, FALSE)
    IN  IF ch.topology_changed THEN Reorder(p5, order, 1) ELSE p5

PresenterNew == presenter = DomPresenter_new

\* ---------------------------------------------------------------- RafLoop
\* `raf` is the RafInner: running, raf_id, the stored closure (closures are
\* numbered in the order start makes them) and the frame counter.  `browser`
\* holds the registrations made by requestAnimationFrame and not yet run or
\* cancelled, in the order they were made (`pending`), the ones the animation frame under way still has to
\* run (`queue`), the next id it hands out and the animation frames begun.
RafLoop_new ==
    [closure |-> None, frame_counter |-> 0, running |-> FALSE, raf_id |-> 0]

NoRegistrations == [pending |-> <<>>, queue |-> <<>>, next_id |-> 1, frames |-> 0]

\* requestAnimationFrame(closure): the registration is pending under a new id.
request_animation_frame(b, closure) ==
    [b EXCEPT !.pending = Append(@, [id |-> b.next_id, closure |-> closure]),
              !.next_id = @ + 1]

\* cancelAnimationFrame(id): a registration that has not run yet is dropped.
cancel_animation_frame(b, id) ==
    [b EXCEPT !.pending = SelectSeq(@, LAMBDA r : r.id # id),
              !.queue = SelectSeq(@, LAMBDA r : r.id # id)]

start ==
    IF raf.running THEN UNCHANGED <<raf, browser>>
    ELSE LET closure == browser.next_id
         IN  /\ browser' = request_animation_frame(browser, closure)
             /\ raf' = [raf EXCEPT !.running = TRUE,
                                   !.raf_id = browser.next_id,
                                   !.closure = Some(closure)]

stop ==
    IF ~raf.running THEN UNCHANGED <<raf, browser>>
    ELSE /\ raf' = [raf EXCEPT !.running = FALSE]
         /\ browser' = cancel_animation_frame(browser, raf.raf_id)

RafNew ==
    /\ raf = RafLoop_new
    /\ browser = NoRegistrations
    /\ in_callback = FALSE
    /\ delivered = 0
    /\ raf_calls = 0

\* The components added next to the ones above, as constructed.
LateNew == ClockNew /\ LoopNew /\ PresenterNew /\ RafNew

\* The components next to the store and the scheduler, as constructed.
RestNew == TimingNew /\ RecorderNew /\ HeapNew /\ QueueNew /\ SyncNew /\ LateNew


StoreNew ==
    /\ len = 0
    /\ parent = EmptyVec /\ first_child = EmptyVec
    /\ next_sibling = EmptyVec /\ prev_sibling = EmptyVec
    /\ local_transform = EmptyVec /\ local_opacity = EmptyVec
    /\ clip = EmptyVec /\ content = EmptyVec /\ flags = EmptyVec
    /\ world_transform = EmptyVec /\ effective_opacity = EmptyVec
    /\ effective_hidden = EmptyVec
    /\ generation = EmptyVec /\ free_list = <<>>
    /\ dirty = [ch \in Channels |-> {}]
    /\ deps = [ch \in {TRANSFORM, OPACITY} |-> {}]
    /\ traversal_order = <<>> /\ traversal_dirty = TRUE
    /\ pending_added = <<>> /\ pending_removed = <<>>
    /\ changes = NoChanges /\ last = "new"
    /\ issued = {} /\ destroyed = {} /\ owed = NothingOwed
    /\ listed = [ch \in {TRANSFORM, OPACITY} |-> {}]
    /\ tally = [added |-> <<>>, removed |-> <<>>]
    /\ since = [first |-> TRUE, restructured |-> FALSE] /\ peak = 0 /\ steps = 0

\* A new store, next to a scheduler that is built and not called.
Init ==
    /\ StoreNew
    /\ scheduler = Scheduler_new(macos)
    /\ frame_plan = NoPlan
    /\ runs = NoRuns
    /\ RestNew

\* The four topology arrays, passed around as one record by the helpers.
Topo == [parent |-> parent, first_child |-> first_child,
         next_sibling |-> next_sibling, prev_sibling |-> prev_sibling]

SetTopo(T) ==
    /\ parent' = T.parent /\ first_child' = T.first_child
    /\ next_sibling' = T.next_sibling /\ prev_sibling' = T.prev_sibling

\* validate without the generation comparison.
validate_index_only(id) == id.idx < len

validate(id) == id.idx < len /\ generation[id.idx] = id.generation

\* is_alive without the generation comparison.
is_alive_ignoring_generation(id) ==
    id.idx < len /\ ~Contains(free_list, id.idx)

is_alive(id) ==
    /\ id.idx < len
    /\ generation[id.idx] = id.generation
    /\ ~Contains(free_list, id.idx)

\* The messages of the store's assertions.
StaleLayerId == "stale LayerId"
HasChildren == "cannot destroy layer with children"
HasParent == "child already has a parent"
NoParent == "layer has no parent"
SiblingNoParent == "sibling has no parent"
PanicMessages == {StaleLayerId, HasChildren, HasParent, NoParent, SiblingNoParent}

\* A failed assertion: the call unwinds with `msg` before it has written anything.
Panic(msg) == /\ last' = msg
              /\ changes' = NoChanges
              /\ UNCHANGED <<storeVars, ghostVars>>

\* unlink_from_parent that leaves the next sibling's back link as it was.
unlink_from_parent_singly(T, idx) ==
    LET p == T.parent[idx]
        prev == T.prev_sibling[idx]
        next == T.next_sibling[idx]
        T1 == IF prev # INVALID THEN [T EXCEPT !.next_sibling[prev] = next]
              ELSE [T EXCEPT !.first_child[p] = next]
        T2 == T1
        T3 == [T2 EXCEPT !.parent[idx] = INVALID]
        T4 == [T3 EXCEPT !.prev_sibling[idx] = INVALID]
    IN  [T4 EXCEPT !.next_sibling[idx] = INVALID]

unlink_from_parent(T, idx) ==
    LET p == T.parent[idx]
        prev == T.prev_sibling[idx]
        next == T.next_sibling[idx]
        T1 == IF prev # INVALID THEN [T EXCEPT !.next_sibling[prev] = next]
              ELSE [T EXCEPT !.first_child[p] = next]
        T2 == IF next # INVALID THEN [T1 EXCEPT !.prev_sibling[next] = prev]
              ELSE T1
        T3 == [T2 EXCEPT !.parent[idx] = INVALID]
        T4 == [T3 EXCEPT !.prev_sibling[idx] = INVALID]
    IN  [T4 EXCEPT !.next_sibling[idx] = INVALID]

RECURSIVE LastSibling(_, _)
LastSibling(T, c) ==
    IF T.next_sibling[c] = INVALID THEN c ELSE LastSibling(T, T.next_sibling[c])

\* AppendChild that links c in front of the children of p.
AppendChild_front(T, p, c) ==
    LET T1 == [T EXCEPT !.parent[c] = p]
        T2 == [T1 EXCEPT !.prev_sibling[c] = INVALID]
        T3 == [T2 EXCEPT !.next_sibling[c] = T2.first_child[p]]
        T4 == IF T3.first_child[p] # INVALID
              THEN [T3 EXCEPT !.prev_sibling[T3.first_child[p]] = c]
              ELSE T3
    IN  [T4 EXCEPT !.first_child[p] = c]

\* The body shared by add_child and reparent: link c as the last child of p.
AppendChild(T, p, c) ==
    LET T1 == [T EXCEPT !.parent[c] = p]
        T2 == [T1 EXCEPT !.prev_sibling[c] = INVALID]
        T3 == [T2 EXCEPT !.next_sibling[c] = INVALID]
    IN  IF T3.first_child[p] = INVALID
        THEN [T3 EXCEPT !.first_child[p] = c]
        ELSE LET lastc == LastSibling(T3, T3.first_child[p])
                 T4 == [T3 EXCEPT !.next_sibling[lastc] = c]
             IN  [T4 EXCEPT !.prev_sibling[c] = lastc]

AddEdges(E, c, p) == AddDependency(AddDependency(E, c, p, TRANSFORM), c, p, OPACITY)

RemoveEdges(E, c, p) ==
    RemoveDependency(RemoveDependency(E, c, p, TRANSFORM), c, p, OPACITY)

mark_subtree_inherited_dirty(d, E, idx) ==
    MarkEager(MarkEager(d, E, idx, TRANSFORM), E, idx, OPACITY)

\* Proper ancestors of idx along the parent links of P, root first; at most
\* `fuel` links are followed.
RECURSIVE AncestorChain(_, _, _)
AncestorChain(P, idx, fuel) ==
    IF fuel = 0 \/ P[idx] = INVALID THEN <<>>
    ELSE Append(AncestorChain(P, P[idx], fuel - 1), P[idx])

Descendants(P, idx) ==
    {x \in DOMAIN P : idx \in Range(AncestorChain(P, x, Cardinality(DOMAIN P)))}

Subtree(P, idx) == {idx} \cup Descendants(P, idx)

Live == {i \in Slots : ~Contains(free_list, i)}

\* A call that returned: `last` names its outcome and `changes` holds the
\* FrameChanges of the call if it was an evaluate.
Returned == last' = "ok" /\ changes' = NoChanges

\* What the calls since the last evaluate owe the next one: the slots a setter
\* was called on (direct), their descendants (inherited) and the subtrees a
\* topology call moved.  In the state an evaluate returns in, `owed` is what
\* that evaluate owed.
OwedNow == IF last = "evaluate" THEN NothingOwed ELSE owed

Owe(ch, idx) == [OwedNow EXCEPT !.direct[ch] = @ \cup {idx}]

OweInherited(ch, idx) ==
    [OwedNow EXCEPT !.direct[ch] = @ \cup {idx},
                    !.inherited[ch] = @ \cup Descendants(parent, idx)]

OweMoved(S) == [OwedNow EXCEPT !.moved = @ \cup S]

Forget(o, idx) ==
    [direct |-> [ch \in DOMAIN o.direct |-> o.direct[ch] \ {idx}],
     inherited |-> [ch \in DOMAIN o.inherited |-> o.inherited[ch] \ {idx}],
     moved |-> o.moved \ {idx}]

\* The slots of live layers that the evaluates before the last call listed in
\* transforms and in opacities.  In the state an evaluate returns in, `listed`
\* is what the evaluates before it listed.
ListedNow ==
    IF last = "evaluate"
    THEN [ch \in {TRANSFORM, OPACITY} |->
            listed[ch] \cup Range(IF ch = TRANSFORM THEN changes.transforms
                                ELSE changes.opacities)]
    ELSE listed

\* Whether no evaluate has returned yet (first) and whether a call that changes
\* the set or the tree of layers was made since the last evaluate
\* (restructured).  In the state an evaluate returns in, `since` tells whether
\* that evaluate was the store's first and whether such a call preceded it.
SinceNow ==
    IF last = "evaluate" THEN [first |-> FALSE, restructured |-> FALSE] ELSE since

Restructured == [SinceNow EXCEPT !.restructured = TRUE]

\* `peak` is the largest number of layers that were alive at the same time.

\* -- Allocation API --
create_layer ==
    /\ free_list # <<>> \/ len < MaxSlots
    /\ LET reuse == free_list # <<>>
           idx == IF reuse THEN free_list[Len(free_list)] ELSE len
           gen == IF reuse THEN generation[idx] + 1 ELSE 0
           put(f, v) == IF reuse THEN [f EXCEPT ![idx] = v] ELSE Push(f, len, v)
       IN  /\ free_list' = IF reuse THEN Pop(free_list) ELSE free_list
           /\ len' = IF reuse THEN len ELSE len + 1
           /\ generation' = put(generation, gen)
           /\ parent' = put(parent, INVALID)
           /\ first_child' = put(first_child, INVALID)
           /\ next_sibling' = put(next_sibling, INVALID)
           /\ prev_sibling' = put(prev_sibling, INVALID)
           /\ local_transform' = put(local_transform, IDENTITY)
           /\ local_opacity' = put(local_opacity, 1)
           /\ clip' = put(clip, "None")
           /\ content' = put(content, "None")
           /\ flags' = put(flags, DefaultFlags)
           /\ world_transform' = put(world_transform, IDENTITY)
           /\ effective_opacity' = put(effective_opacity, 1)
           /\ effective_hidden' = put(effective_hidden, FALSE)
           /\ traversal_dirty' = TRUE
           /\ pending_added' = Append(pending_added, idx)
           /\ dirty' = Mark(dirty, idx, TOPOLOGY)
           /\ issued' = issued \cup {LayerId(idx, gen)}
           /\ owed' = OwedNow
           /\ listed' = ListedNow
           /\ UNCHANGED tally
           /\ since' = Restructured
           /\ peak' = Max(peak, Cardinality((issued \cup {LayerId(idx, gen)}) \ destroyed))
           /\ UNCHANGED <<deps, traversal_order, pending_removed, destroyed>>
           /\ Returned

\* destroy_layer without the assertion on first_child.
destroy_layer_unasserted(id) ==
    IF ~validate(id) THEN Panic(StaleLayerId)
    ELSE LET idx == id.idx IN
         /\ SetTopo(IF parent[idx] # INVALID THEN unlink_from_parent(Topo, idx)
                    ELSE Topo)
         /\ deps' = RemoveKeyDeps(deps, idx)
         /\ generation' = [generation EXCEPT ![idx] = @ + 1]
         /\ free_list' = Append(free_list, idx)
         /\ traversal_dirty' = TRUE
         /\ pending_removed' = Append(pending_removed, idx)
         /\ dirty' = Mark(RemoveKeyDirty(dirty, idx), idx, TOPOLOGY)
         /\ destroyed' = destroyed \cup {id}
         /\ owed' = Forget(OwedNow, idx)
         /\ listed' = [ch \in DOMAIN listed |-> ListedNow[ch] \ {idx}]
         /\ UNCHANGED tally
         /\ since' = Restructured
         /\ UNCHANGED peak
         /\ UNCHANGED <<len, propVars, computedVars, traversal_order,
                        pending_added, issued>>
         /\ Returned

\* destroy_layer without the tracker's remove_key.
destroy_layer_keeping_key(id) ==
    IF ~validate(id) THEN Panic(StaleLayerId)
    ELSE IF first_child[id.idx] # INVALID THEN Panic(HasChildren)
    ELSE LET idx == id.idx IN
         /\ SetTopo(IF parent[idx] # INVALID THEN unlink_from_parent(Topo, idx)
                    ELSE Topo)
         /\ deps' = deps
         /\ generation' = [generation EXCEPT ![idx] = @ + 1]
         /\ free_list' = Append(free_list, idx)
         /\ traversal_dirty' = TRUE
         /\ pending_removed' = Append(pending_removed, idx)
         /\ dirty' = Mark(dirty, idx, TOPOLOGY)
         /\ destroyed' = destroyed \cup {id}
         /\ owed' = Forget(OwedNow, idx)
         /\ listed' = [ch \in DOMAIN listed |-> ListedNow[ch] \ {idx}]
         /\ UNCHANGED tally
         /\ since' = Restructured
         /\ UNCHANGED peak
         /\ UNCHANGED <<len, propVars, computedVars, traversal_order,
                        pending_added, issued>>
         /\ Returned

destroy_layer(id) ==
    IF ~validate(id) THEN Panic(StaleLayerId)
    ELSE IF first_child[id.idx] # INVALID THEN Panic(HasChildren)
    ELSE LET idx == id.idx IN
         /\ SetTopo(IF parent[idx] # INVALID THEN unlink_from_parent(Topo, idx)
                    ELSE Topo)
         /\ deps' = RemoveKeyDeps(deps, idx)
         /\ generation' = [generation EXCEPT ![idx] = @ + 1]
         /\ free_list' = Append(free_list, idx)
         /\ traversal_dirty' = TRUE
         /\ pending_removed' = Append(pending_removed, idx)
         /\ dirty' = Mark(RemoveKeyDirty(dirty, idx), idx, TOPOLOGY)
         /\ destroyed' = destroyed \cup {id}
         /\ owed' = Forget(OwedNow, idx)
         /\ listed' = [ch \in DOMAIN listed |-> ListedNow[ch] \ {idx}]
         /\ UNCHANGED tally
         /\ since' = Restructured
         /\ UNCHANGED peak
         /\ UNCHANGED <<len, propVars, computedVars, traversal_order,
                        pending_added, issued>>
         /\ Returned

\* -- Topology API --
add_child(pid, cid) ==
    IF ~validate(pid) \/ ~validate(cid) THEN Panic(StaleLayerId)
    ELSE IF parent[cid.idx] # INVALID THEN Panic(HasParent)
    ELSE LET p == pid.idx
             c == cid.idx
             T == AppendChild(Topo, p, c)
             E == AddEdges(deps, c, p)
         IN  /\ SetTopo(T)
             /\ deps' = E
             /\ dirty' = Mark(mark_subtree_inherited_dirty(dirty, E, c), p, TOPOLOGY)
             /\ traversal_dirty' = TRUE
             /\ owed' = OweMoved(Subtree(T.parent, c))
             /\ listed' = ListedNow
             /\ UNCHANGED tally
             /\ since' = Restructured
             /\ UNCHANGED peak
             /\ UNCHANGED <<propVars, computedVars, allocVars, traversal_order,
                            lifecycleVars, issued, destroyed>>
             /\ Returned

remove_from_parent(cid) ==
    IF ~validate(cid) THEN Panic(StaleLayerId)
    ELSE IF parent[cid.idx] = INVALID THEN Panic(NoParent)
    ELSE LET c == cid.idx
             p == parent[c]
             T == unlink_from_parent(Topo, c)
             E == RemoveEdges(deps, c, p)
         IN  /\ SetTopo(T)
             /\ deps' = E
             /\ dirty' = Mark(mark_subtree_inherited_dirty(dirty, E, c), p, TOPOLOGY)
             /\ traversal_dirty' = TRUE
             /\ owed' = OweMoved(Subtree(T.parent, c))
             /\ listed' = ListedNow
             /\ UNCHANGED tally
             /\ since' = Restructured
             /\ UNCHANGED peak
             /\ UNCHANGED <<propVars, computedVars, allocVars, traversal_order,
                            lifecycleVars, issued, destroyed>>
             /\ Returned

reparent(cid, pid) ==
    IF ~validate(cid) \/ ~validate(pid) THEN Panic(StaleLayerId)
    ELSE LET c == cid.idx
             p == pid.idx
             attached == parent[c] # INVALID
             old_p == parent[c]
             T0 == IF attached THEN unlink_from_parent(Topo, c) ELSE Topo
             E0 == IF attached THEN RemoveEdges(deps, c, old_p) ELSE deps
             d0 == IF attached THEN Mark(dirty, old_p, TOPOLOGY) ELSE dirty
             T == AppendChild(T0, p, c)
             E == AddEdges(E0, c, p)
         IN  /\ SetTopo(T)
             /\ deps' = E
             /\ dirty' = Mark(mark_subtree_inherited_dirty(d0, E, c), p, TOPOLOGY)
             /\ traversal_dirty' = TRUE
             /\ owed' = OweMoved(Subtree(T.parent, c))
             /\ listed' = ListedNow
             /\ UNCHANGED tally
             /\ since' = Restructured
             /\ UNCHANGED peak
             /\ UNCHANGED <<propVars, computedVars, allocVars, traversal_order,
                            lifecycleVars, issued, destroyed>>
             /\ Returned

insert_before(cid, sid) ==
    IF ~validate(cid) \/ ~validate(sid) THEN Panic(StaleLayerId)
    ELSE IF parent[cid.idx] # INVALID THEN Panic(HasParent)
    ELSE IF parent[sid.idx] = INVALID THEN Panic(SiblingNoParent)
    ELSE LET c == cid.idx
             s == sid.idx
             p == parent[s]
             T1 == [Topo EXCEPT !.parent[c] = p]
             T2 == [T1 EXCEPT !.next_sibling[c] = s]
             T3 == [T2 EXCEPT !.prev_sibling[c] = T2.prev_sibling[s]]
             T4 == IF T3.prev_sibling[s] # INVALID
                   THEN [T3 EXCEPT !.next_sibling[T3.prev_sibling[s]] = c]
                   ELSE [T3 EXCEPT !.first_child[p] = c]
             T == [T4 EXCEPT !.prev_sibling[s] = c]
         IN  /\ SetTopo(T)
             /\ deps' = AddEdges(deps, c, p)
             /\ traversal_dirty' = TRUE
             /\ dirty' = Mark(dirty, p, TOPOLOGY)
             /\ owed' = OweMoved(Subtree(T.parent, c))
             /\ listed' = ListedNow
             /\ UNCHANGED tally
             /\ since' = Restructured
             /\ UNCHANGED peak
             /\ UNCHANGED <<propVars, computedVars, allocVars, traversal_order,
                            lifecycleVars, issued, destroyed>>
             /\ Returned

\* The slots Children yields from `cur` on: next_sibling is followed until it
\* is INVALID; at most `fuel` slots are taken.
RECURSIVE ChildrenFrom(_, _, _)
ChildrenFrom(nxt, cur, fuel) ==
    IF cur = INVALID \/ fuel = 0 THEN <<>>
    ELSE <<cur>> \o ChildrenFrom(nxt, nxt[cur], fuel - 1)

\* children(id) for the slot idx, cut off after len + 1 slots: a result longer
\* than len is a walk that does not end.
children(idx) == ChildrenFrom(next_sibling, first_child[idx], len + 1)

\* -- Property getters (parent, children, local_transform, ..., effective_hidden):
\* each validates its handle and reads the slot.
get(id) ==
    IF ~validate(id) THEN Panic(StaleLayerId)
    ELSE /\ owed' = OwedNow
         /\ listed' = ListedNow
         /\ UNCHANGED tally
         /\ since' = SinceNow
         /\ UNCHANGED peak
         /\ UNCHANGED <<storeVars, issued, destroyed>>
         /\ Returned

\* -- Mutation API --
set_transform(id, transform) ==
    IF ~validate(id) THEN Panic(StaleLayerId)
    ELSE /\ local_transform' = [local_transform EXCEPT ![id.idx] = transform]
         /\ dirty' = MarkEager(dirty, deps, id.idx, TRANSFORM)
         /\ owed' = OweInherited(TRANSFORM, id.idx)
         /\ listed' = ListedNow
         /\ UNCHANGED tally
         /\ since' = SinceNow
         /\ UNCHANGED peak
         /\ UNCHANGED <<topoVars, local_opacity, clip, content, flags, computedVars,
                        allocVars, deps, cacheVars, lifecycleVars, issued, destroyed>>
         /\ Returned

set_opacity(id, opacity) ==
    IF ~validate(id) THEN Panic(StaleLayerId)
    ELSE /\ local_opacity' = [local_opacity EXCEPT ![id.idx] = opacity]
         /\ dirty' = MarkEager(dirty, deps, id.idx, OPACITY)
         /\ owed' = OweInherited(OPACITY, id.idx)
         /\ listed' = ListedNow
         /\ UNCHANGED tally
         /\ since' = SinceNow
         /\ UNCHANGED peak
         /\ UNCHANGED <<topoVars, local_transform, clip, content, flags, computedVars,
                        allocVars, deps, cacheVars, lifecycleVars, issued, destroyed>>
         /\ Returned

set_clip(id, shape) ==
    IF ~validate(id) THEN Panic(StaleLayerId)
    ELSE /\ clip' = [clip EXCEPT ![id.idx] = shape]
         /\ dirty' = Mark(dirty, id.idx, CLIP)
         /\ owed' = Owe(CLIP, id.idx)
         /\ listed' = ListedNow
         /\ UNCHANGED tally
         /\ since' = SinceNow
         /\ UNCHANGED peak
         /\ UNCHANGED <<topoVars, local_transform, local_opacity, content, flags,
                        computedVars, allocVars, deps, cacheVars, lifecycleVars,
                        issued, destroyed>>
         /\ Returned

\* set_content without the CONTENT mark.
set_content_unmarked(id, surface) ==
    IF ~validate(id) THEN Panic(StaleLayerId)
    ELSE /\ content' = [content EXCEPT ![id.idx] = surface]
         /\ owed' = Owe(CONTENT, id.idx)
         /\ listed' = ListedNow
         /\ UNCHANGED tally
         /\ since' = SinceNow
         /\ UNCHANGED peak
         /\ UNCHANGED <<topoVars, local_transform, local_opacity, clip, flags,
                        computedVars, allocVars, trackerVars, cacheVars,
                        lifecycleVars, issued, destroyed>>
         /\ Returned

set_content(id, surface) ==
    IF ~validate(id) THEN Panic(StaleLayerId)
    ELSE /\ content' = [content EXCEPT ![id.idx] = surface]
         /\ dirty' = Mark(dirty, id.idx, CONTENT)
         /\ owed' = Owe(CONTENT, id.idx)
         /\ listed' = ListedNow
         /\ UNCHANGED tally
         /\ since' = SinceNow
         /\ UNCHANGED peak
         /\ UNCHANGED <<topoVars, local_transform, local_opacity, clip, flags,
                        computedVars, allocVars, deps, cacheVars, lifecycleVars,
                        issued, destroyed>>
         /\ Returned

set_flags(id, f) ==
    IF ~validate(id) THEN Panic(StaleLayerId)
    ELSE /\ flags' = [flags EXCEPT ![id.idx] = f]
         /\ dirty' = MarkEager(dirty, deps, id.idx, TRANSFORM)
         /\ owed' = OweInherited(TRANSFORM, id.idx)
         /\ listed' = ListedNow
         /\ UNCHANGED tally
         /\ since' = SinceNow
         /\ UNCHANGED peak
         /\ UNCHANGED <<topoVars, local_transform, local_opacity, clip, content,
                        computedVars, allocVars, deps, cacheVars, lifecycleVars,
                        issued, destroyed>>
         /\ Returned

\* ---------------------------------------------------------------- Evaluator
RECURSIVE dfs_collect(_), DfsSiblings(_)
dfs_collect(idx) == <<idx>> \o DfsSiblings(first_child[idx])

DfsSiblings(child) ==
    IF child = INVALID THEN <<>>
    ELSE dfs_collect(child) \o DfsSiblings(next_sibling[child])

RECURSIVE RebuildFrom(_)
RebuildFrom(idx) ==
    IF idx >= len THEN <<>>
    ELSE (IF parent[idx] = INVALID /\ ~Contains(free_list, idx)
          THEN dfs_collect(idx) ELSE <<>>) \o RebuildFrom(idx + 1)

rebuild_traversal_order == RebuildFrom(0)

\* The TRANSFORM loop without the comparison with the old effective_hidden:
\* every drained slot is pushed to hidden or unhidden.
RECURSIVE RecomputeTransforms_uncompared(_, _, _)
RecomputeTransforms_uncompared(order, i, st) ==
    IF i > Len(order) THEN st
    ELSE LET idx == order[i]
             parent_idx == parent[idx]
             parent_world == IF parent_idx # INVALID THEN st.world[parent_idx]
                             ELSE IDENTITY
             parent_hidden == IF parent_idx # INVALID THEN st.ehidden[parent_idx]
                              ELSE FALSE
             new_hidden == parent_hidden \/ flags[idx].hidden
         IN  RecomputeTransforms_uncompared(order, i + 1,
                [world |-> [st.world EXCEPT
                               ![idx] = Mul(parent_world, local_transform[idx])],
                 ehidden |-> [st.ehidden EXCEPT ![idx] = new_hidden],
                 hidden |-> IF new_hidden
                            THEN Append(st.hidden, idx) ELSE st.hidden,
                 unhidden |-> IF ~new_hidden
                              THEN Append(st.unhidden, idx) ELSE st.unhidden])

\* The TRANSFORM loop of evaluate_into over the drained indices, in order.
\* st = [world, ehidden, hidden, unhidden].
RECURSIVE RecomputeTransforms(_, _, _)
RecomputeTransforms(order, i, st) ==
    IF i > Len(order) THEN st
    ELSE LET idx == order[i]
             parent_idx == parent[idx]
             parent_world == IF parent_idx # INVALID THEN st.world[parent_idx]
                             ELSE IDENTITY
             parent_hidden == IF parent_idx # INVALID THEN st.ehidden[parent_idx]
                              ELSE FALSE
             new_hidden == parent_hidden \/ flags[idx].hidden
             old_hidden == st.ehidden[idx]
         IN  RecomputeTransforms(order, i + 1,
                [world |-> [st.world EXCEPT
                               ![idx] = Mul(parent_world, local_transform[idx])],
                 ehidden |-> [st.ehidden EXCEPT ![idx] = new_hidden],
                 hidden |-> IF new_hidden # old_hidden /\ new_hidden
                            THEN Append(st.hidden, idx) ELSE st.hidden,
                 unhidden |-> IF new_hidden # old_hidden /\ ~new_hidden
                              THEN Append(st.unhidden, idx) ELSE st.unhidden])

\* The OPACITY loop of evaluate_into.
RECURSIVE RecomputeOpacities(_, _, _)
RecomputeOpacities(order, i, eff) ==
    IF i > Len(order) THEN eff
    ELSE LET idx == order[i]
             parent_opacity == IF parent[idx] # INVALID THEN eff[parent[idx]] ELSE 1
         IN  RecomputeOpacities(order, i + 1,
                [eff EXCEPT ![idx] = OpacityMul(parent_opacity, local_opacity[idx])])

\* FrameChanges::clear that leaves the lifecycle lists as they are.
clear_keeping_lifecycle(buf) ==
    [buf EXCEPT !.transforms = <<>>, !.opacities = <<>>, !.clips = <<>>,
                !.content = <<>>, !.hidden = <<>>, !.unhidden = <<>>,
                !.topology_changed = FALSE]

\* FrameChanges::clear that leaves topology_changed as it is.
clear_keeping_topology_changed(buf) ==
    [buf EXCEPT !.transforms = <<>>, !.opacities = <<>>, !.clips = <<>>,
                !.content = <<>>, !.hidden = <<>>, !.unhidden = <<>>,
                !.added = <<>>, !.removed = <<>>]

clear(buf) ==
    [buf EXCEPT !.transforms = <<>>, !.opacities = <<>>, !.clips = <<>>,
                !.content = <<>>, !.hidden = <<>>, !.unhidden = <<>>,
                !.added = <<>>, !.removed = <<>>, !.topology_changed = FALSE]

\* The pending lists are handed over without being emptied.
TakePending_copied(cleared) == UNCHANGED <<pending_added, pending_removed>>

\* The swap of the pending lists with the lists of the cleared change-set.
TakePending(cleared) ==
    /\ pending_added' = cleared.added
    /\ pending_removed' = cleared.removed

\* `buf` is the FrameChanges the caller provides.
evaluate_into(buf) ==
    LET cleared == clear(buf)
        dirty_transforms == DrainAffected(dirty, deps, TRANSFORM)
        xf == RecomputeTransforms(dirty_transforms, 1,
                  [world |-> world_transform, ehidden |-> effective_hidden,
                   hidden |-> cleared.hidden, unhidden |-> cleared.unhidden])
        dirty_opacities == DrainAffected(dirty, deps, OPACITY)
        eff == RecomputeOpacities(dirty_opacities, 1, effective_opacity)
    IN  /\ \A i \in Slots : xf.world[i].s <= MaxXfScale /\ eff[i] <= MaxOpacityDen
        /\ traversal_order' = IF traversal_dirty THEN rebuild_traversal_order
                              ELSE traversal_order
        /\ traversal_dirty' = FALSE
        /\ world_transform' = xf.world
        /\ effective_hidden' = xf.ehidden
        /\ effective_opacity' = eff
        /\ dirty' = [ch \in Channels |-> {}]
        /\ changes' = [transforms |-> dirty_transforms,
                       opacities |-> dirty_opacities,
                       clips |-> DrainLocal(dirty, CLIP),
                       content |-> DrainLocal(dirty, CONTENT),
                       hidden |-> xf.hidden,
                       unhidden |-> xf.unhidden,
                       added |-> pending_added,
                       removed |-> pending_removed,
                       topology_changed |-> IF traversal_dirty THEN TRUE
                                            ELSE cleared.topology_changed]
        /\ TakePending(cleared)
        /\ last' = "evaluate"
        /\ owed' = OwedNow
        /\ listed' = ListedNow
        /\ tally' = [added |-> tally.added \o pending_added,
                     removed |-> tally.removed \o pending_removed]
        /\ since' = SinceNow
        /\ UNCHANGED peak
        /\ UNCHANGED <<topoVars, propVars, allocVars, deps, issued, destroyed>>

evaluate == evaluate_into(NoChanges)

\* ------------------------------------------------------------ specification
FlagInputs == {[hidden |-> h] : h \in BOOLEAN}

\* The FrameChanges a caller hands to evaluate_into: a fresh one, or one that
\* still holds the lists and the flag of an earlier frame.
UsedChanges ==
    [transforms |-> <<0>>, opacities |-> <<0>>, clips |-> <<0>>, content |-> <<0>>,
     hidden |-> <<0>>, unhidden |-> <<0>>, added |-> <<0>>, removed |-> <<0>>,
     topology_changed |-> TRUE]

BufferInputs == {NoChanges, UsedChanges}

\* A failed assertion is fatal: nothing runs after it.
Running == last \notin PanicMessages

\* One more call of a run of at most n calls.
Step(n) == steps < n /\ steps' = steps + 1

\* The call returns: its arguments satisfy the operation's preconditions.
Succeeds == last' \notin PanicMessages

\* One call of a program that respects the preconditions.
Call(A) == Running /\ Step(MaxSteps) /\ A /\ Succeeds /\ UNCHANGED <<schedVars, restVars>>

\* The same, in the shorter runs that exercise every setter.
Report(A) == Running /\ Step(MaxReportSteps) /\ A /\ Succeeds /\ UNCHANGED <<schedVars, restVars>>

\* One call of a program that may break them; the failed assertion ends it.
Attempt(A) == Running /\ UNCHANGED steps /\ A /\ UNCHANGED <<schedVars, restVars>>

Create == Cardinality(issued) < MaxCreates /\ create_layer

\* Destroy and the topology API, called with every handle ever issued.
Destroy == \E id \in issued : destroy_layer(id)
AddChild == \E p, c \in issued : add_child(p, c)
RemoveFromParent == \E c \in issued : remove_from_parent(c)
Reparent == \E c, p \in issued : reparent(c, p)
InsertBefore == \E c, s \in issued : insert_before(c, s)

Next ==
    \/ Call(Create)
    \/ Call(Destroy)
    \/ Call(AddChild)
    \/ Call(RemoveFromParent)
    \/ Call(Reparent)
    \/ Call(InsertBefore)
    \/ Call(evaluate)

NextTransform ==
    \/ Call(Create)
    \/ Call(Destroy)
    \/ Call(AddChild)
    \/ Call(RemoveFromParent)
    \/ Call(Reparent)
    \/ Call(InsertBefore)
    \/ Call(evaluate)
    \/ Call(\E id \in issued : \E t \in XfInputs(id.idx) : set_transform(id, t))
    \/ Call(\E id \in issued : \E f \in FlagInputs : set_flags(id, f))

NextOpacity ==
    \/ Call(Create)
    \/ Call(Destroy)
    \/ Call(AddChild)
    \/ Call(RemoveFromParent)
    \/ Call(Reparent)
    \/ Call(InsertBefore)
    \/ Call(evaluate)
    \/ Call(\E id \in issued : \E o \in OpacityInputs(id.idx) : set_opacity(id, o))

\* Every setter.  The inherited properties are set to the value a layer has
\* by default, so that only the dirty channels move; clip and content are set
\* to a value no fresh layer has, so that a slot shows that it has been set.
NextReport ==
    \/ Report(Create)
    \/ Report(Destroy)
    \/ Report(AddChild)
    \/ Report(RemoveFromParent)
    \/ Report(Reparent)
    \/ Report(InsertBefore)
    \/ Report(evaluate)
    \/ Report(\E buf \in BufferInputs : evaluate_into(buf))
    \/ Report(\E id \in issued : set_transform(id, IDENTITY))
    \/ Report(\E id \in issued : set_opacity(id, 1))
    \/ Report(\E id \in issued : set_clip(id, "Rect"))
    \/ Report(\E id \in issued : set_content(id, "Surface"))
    \/ Report(\E id \in issued : set_flags(id, DefaultFlags))

\* Every operation that takes a LayerId, called with every handle ever issued,
\* stale ones included; the setters are called with the handles of destroyed
\* layers.
NextAlloc ==
    \/ Attempt(Create)
    \/ Attempt(Destroy)
    \/ Attempt(AddChild)
    \/ Attempt(RemoveFromParent)
    \/ Attempt(Reparent)
    \/ Attempt(InsertBefore)
    \/ Attempt(\E id \in issued : get(id))
    \/ Attempt(\E id \in destroyed : \E t \in XfInputs(id.idx) : set_transform(id, t))
    \/ Attempt(\E id \in destroyed : \E o \in OpacityInputs(id.idx) : set_opacity(id, o))
    \/ Attempt(\E id \in destroyed : \E c \in ClipInputs : set_clip(id, c))
    \/ Attempt(\E id \in destroyed : \E c \in ContentInputs : set_content(id, c))
    \/ Attempt(\E id \in destroyed : \E f \in FlagInputs : set_flags(id, f))

Spec == Init /\ [][Next]_vars
SpecTransform == Init /\ [][NextTransform]_vars
SpecOpacity == Init /\ [][NextOpacity]_vars
SpecReport == Init /\ [][NextReport]_vars
SpecAlloc == Init /\ [][NextAlloc]_vars

\* -- The scheduler, called with every feedback and every tick; the store is
\* left as constructed.
FeedbackInputs ==
    {[submitted_at |-> 2, build_start |-> b, expected_present |-> None,
      actual_present |-> None, missed_deadline |-> m] :
        b \in {0, 3}, m \in {Some(TRUE), Some(FALSE), None}}

\* Two frames: frame 1 on output 0 at tick 0, and frame 2 on output 1 at a
\* `now` so late that now + nominal_latency passes the largest tick value.
TickInputs ==
    {[now |-> IF f = 1 THEN 0 ELSE MaxTicks - 1,
      predicted_present |-> pp, refresh_interval |-> None,
      confidence |-> c, frame_index |-> f, output |-> f - 1,
      prev_actual_present |-> None] :
        f \in {1, 2}, pp \in {None, Some(1)},
        c \in {"Predictive", "Estimated", "PacingOnly"}}

HintInputs ==
    {[desired_present |-> dp, latest_commit |-> 3] : dp \in {None, Some(2)}}

\* The length of the current run of Some(true) observations, and of Some(false)
\* observations, since the run began or the depth last moved.
RunsAfter(missed_deadline) ==
    LET moved == scheduler'.pipeline_depth # scheduler.pipeline_depth
    IN  [misses |-> IF missed_deadline = Some(TRUE) /\ ~moved
                    THEN runs.misses + 1 ELSE 0,
         hits |-> IF missed_deadline = Some(FALSE) /\ ~moved
                  THEN runs.hits + 1 ELSE 0]

StoreIdle == UNCHANGED <<storeVars, changes, last, ghostVars, steps>>

Observe(feedback) ==
    /\ observe(feedback)
    /\ scheduler'.consecutive_misses <= MaxCount
    /\ scheduler'.consecutive_hits <= MaxCount
    /\ runs' = RunsAfter(feedback.missed_deadline)
    /\ runs'.misses <= MaxCount /\ runs'.hits <= MaxCount
    /\ StoreIdle /\ UNCHANGED restVars

Plan(tick, hints) ==
    plan(tick, hints) /\ UNCHANGED runs /\ StoreIdle /\ UNCHANGED restVars

InitScheduler ==
    /\ StoreNew
    /\ \E config \in Configs : scheduler = Scheduler_new(config)
    /\ frame_plan = NoPlan
    /\ runs = NoRuns
    /\ RestNew

NextScheduler ==
    \/ \E feedback \in FeedbackInputs : Observe(feedback)
    \/ \E tick \in TickInputs, hints \in HintInputs : Plan(tick, hints)

SpecScheduler == InitScheduler /\ [][NextScheduler]_vars

\* -- The same calls on schedulers that move their depth on every miss and
\* every hit, or never: what plan returns depends on the configuration only
\* through nominal_latency and the depth.
PlanConfigs == {c \in Configs : c.degradation_policy \in {Fixed, Adaptive(1, 1)}}

InitPlan ==
    /\ StoreNew
    /\ \E config \in PlanConfigs : scheduler = Scheduler_new(config)
    /\ frame_plan = NoPlan
    /\ runs = NoRuns
    /\ RestNew

SpecPlan == InitPlan /\ [][NextScheduler]_vars

\* -- The hint and feedback functions of a frame loop: hints are computed from
\* a tick or built by the caller, and a feedback is built at once or deferred
\* and resolved with the next tick's actual present time.
MarginInputs == {0, 1, 2}

CallerHintInputs ==
    HintInputs \cup {[desired_present |-> Some(2), latest_commit |-> 1]}

SubmitInputs == {1, 2}

ActualInputs == {None, Some(1), Some(2)}

TimingOnly == StoreIdle /\ UNCHANGED <<schedVars, recorderVars, heapVars, queueVars, syncVars, lateVars>>

ComputeHints(tick, safety_margin) ==
    /\ present_hints' = Some(compute_present_hints(tick, safety_margin))
    /\ UNCHANGED <<pending, present_feedback>>
    /\ TimingOnly

UseHints(hints) ==
    /\ present_hints' = Some(hints)
    /\ UNCHANGED <<pending, present_feedback>>
    /\ TimingOnly

New(build_start, submitted_at, actual_present) ==
    /\ present_hints.some
    /\ present_feedback' = Some(PresentFeedback_new(present_hints.value, build_start,
                                            submitted_at, actual_present))
    /\ UNCHANGED <<present_hints, pending>>
    /\ TimingOnly

Defer(build_start, submitted_at) ==
    /\ present_hints.some
    /\ pending' = Some([hints |-> present_hints.value,
                        build_start |-> build_start,
                        submitted_at |-> submitted_at])
    /\ UNCHANGED <<present_hints, present_feedback>>
    /\ TimingOnly

Resolve(actual_present) ==
    /\ pending.some
    /\ present_feedback' = Some(resolve(pending.value, actual_present))
    /\ UNCHANGED <<present_hints, pending>>
    /\ TimingOnly

NextTiming ==
    \/ \E tick \in TickInputs, m \in MarginInputs : ComputeHints(tick, m)
    \/ \E hints \in CallerHintInputs : UseHints(hints)
    \/ \E s \in SubmitInputs, a \in ActualInputs : New(0, s, a)
    \/ \E s \in SubmitInputs : Defer(0, s)
    \/ \E a \in ActualInputs : Resolve(a)

SpecTiming == Init /\ [][NextTiming]_vars

\* -- The recorder and its decoder: a few sink calls are recorded, then the
\* bytes (whole, cut inside the last record, or followed by a byte that is no
\* tag) are handed to decode and next is called on the iterator.
TickEvents ==
    {[frame_index |-> 258, output |-> 1, now |-> 2, predicted_present |-> Some(3),
      refresh_interval |-> None, confidence |-> "Predictive"],
     [frame_index |-> 0, output |-> 257, now |-> 65536, predicted_present |-> None,
      refresh_interval |-> Some(0), confidence |-> "PacingOnly"]}

PlanEvents ==
    {[frame_index |-> 258, output |-> 1, semantic_time |-> 3,
      present_time |-> Some(3), commit_deadline |-> 2, pipeline_depth |-> 2,
      safety_margin_ticks |-> 500],
     [frame_index |-> 1, output |-> 0, semantic_time |-> 65536,
      present_time |-> None, commit_deadline |-> 0, pipeline_depth |-> 255,
      safety_margin_ticks |-> 0]}

PhaseBeginEvents ==
    {[frame_index |-> 258, phase |-> "Plan", timestamp |-> 1000],
     [frame_index |-> 1, phase |-> "Render", timestamp |-> 0]}

PhaseEndEvents ==
    {[frame_index |-> 258, phase |-> "Evaluate", timestamp |-> 1001],
     [frame_index |-> 1, phase |-> "Submit", timestamp |-> 3]}

SubmitEvents ==
    {[frame_index |-> 258, submitted_at |-> 2, expected_present |-> Some(0)],
     [frame_index |-> 1, submitted_at |-> 513, expected_present |-> None]}

PresentFeedbackEvents ==
    {[frame_index |-> 258, actual_present |-> Some(3), missed_deadline |-> Some(TRUE)],
     [frame_index |-> 1, actual_present |-> Some(2), missed_deadline |-> Some(FALSE)],
     [frame_index |-> 2, actual_present |-> None, missed_deadline |-> None]}

SummaryEvents ==
    {[frame_index |-> 258, output |-> 1, confidence |-> "Estimated", now |-> 2,
      present_time |-> Some(3), semantic_time |-> 3, deadline |-> 2,
      pipeline_depth |-> 2, plan_ticks |-> 100, eval_ticks |-> 400,
      render_ticks |-> 800, submit_ticks |-> 50, missed_deadline |-> FALSE],
     [frame_index |-> 1, output |-> 257, confidence |-> "PacingOnly", now |-> 0,
      present_time |-> None, semantic_time |-> 0, deadline |-> 0,
      pipeline_depth |-> 1, plan_ticks |-> 0, eval_ticks |-> 1,
      render_ticks |-> 2, submit_ticks |-> 3, missed_deadline |-> TRUE]}

\* Lengths of the slices handed to the rich-event hooks.
SliceLens == {0, 2, U32_MAX + 1}

UnknownTags == {0, 10}

\* What may follow the unknown byte: nothing, or one more whole record.
\* The longest record, a frame summary.
MaxRecordLen == Len(on_frame_summary(CHOOSE e \in SummaryEvents : TRUE))

TrailingBytes == {<<>>, on_phase_begin([frame_index |-> 258, phase |-> "Plan",
                                         timestamp |-> 1000])}

\* The bytes a recorded call appended.
Encoding(call) ==
    CASE call.method = "on_frame_tick" -> on_frame_tick(call.e)
      [] call.method = "on_frame_plan" -> on_frame_plan(call.e)
      [] call.method = "on_phase_begin" -> on_phase_begin(call.e)
      [] call.method = "on_phase_end" -> on_phase_end(call.e)
      [] call.method = "on_submit" -> on_submit(call.e)
      [] call.method = "on_present_feedback" -> on_present_feedback(call.e)
      [] call.method = "on_frame_summary" -> on_frame_summary(call.e)
      [] call.method = "on_layer_changes" ->
            on_layer_changes(call.frame_index, call.n_elems)
      [] call.method = "on_damage_rects" ->
            on_damage_rects(call.frame_index, call.n_elems)

RecorderOnly == StoreIdle /\ UNCHANGED <<schedVars, timingVars, heapVars, queueVars, syncVars, lateVars>>

\* One hook of the TraceSink: `bytes` are pushed onto the buffer.  The
\* recorder is not written while a decoder borrows its bytes.
Sink(call, bytes) ==
    /\ ~decoder.some
    /\ Len(sunk) < MaxEvents
    /\ sink' = sink \o bytes
    /\ sunk' = Append(sunk, call)
    /\ UNCHANGED <<decoder, fed, yielded>>
    /\ RecorderOnly

OnFrameTick(e) == Sink([method |-> "on_frame_tick", e |-> e], on_frame_tick(e))

OnFramePlan(e) == Sink([method |-> "on_frame_plan", e |-> e], on_frame_plan(e))

OnPhaseBegin(e) == Sink([method |-> "on_phase_begin", e |-> e], on_phase_begin(e))

OnPhaseEnd(e) == Sink([method |-> "on_phase_end", e |-> e], on_phase_end(e))

OnSubmit(e) == Sink([method |-> "on_submit", e |-> e], on_submit(e))

OnPresentFeedback(e) ==
    Sink([method |-> "on_present_feedback", e |-> e], on_present_feedback(e))

OnFrameSummary(e) ==
    Sink([method |-> "on_frame_summary", e |-> e], on_frame_summary(e))

OnLayerChanges(frame_index, n_changes) ==
    Sink([method |-> "on_layer_changes", frame_index |-> frame_index,
          n_elems |-> n_changes],
         on_layer_changes(frame_index, n_changes))

OnDamageRects(frame_index, n_rects) ==
    Sink([method |-> "on_damage_rects", frame_index |-> frame_index,
          n_elems |-> n_rects],
         on_damage_rects(frame_index, n_rects))

\* decode(bytes): `events` are the calls whose whole encodings open `bytes`,
\* `tail` says what follows them.
DecodeBytes(bytes, events, tail) ==
    /\ ~decoder.some
    /\ decoder' = Some([data |-> bytes, pos |-> 0])
    /\ fed' = Some([events |-> events, tail |-> tail])
    /\ UNCHANGED <<sink, sunk, yielded>>
    /\ RecorderOnly

\* decode(rec.as_bytes())
Decode == DecodeBytes(sink, sunk, "none")

\* decode(&rec.as_bytes()[..k]), k falling inside the last record.
DecodeTruncated(k) ==
    /\ sunk # <<>>
    /\ k > Len(sink) - Len(Encoding(sunk[Len(sunk)]))
    /\ k < Len(sink)
    /\ DecodeBytes(SubSeq(sink, 1, k), SubSeq(sunk, 1, Len(sunk) - 1), "prefix")

\* decode of the recorded bytes followed by a byte that is not a tag.
DecodeUnknown(t, rest) == DecodeBytes(sink \o <<t>> \o rest, sunk, "unknown")

\* One call of next on the iterator.
IterNext ==
    /\ decoder.some
    /\ Len(yielded) < MaxNexts
    /\ LET it == DecodeIter_next(decoder.value.data, decoder.value.pos)
       IN /\ decoder' = Some([decoder.value EXCEPT !.pos = it.pos])
          /\ yielded' = Append(yielded, it.item)
    /\ UNCHANGED <<sink, sunk, fed>>
    /\ RecorderOnly

NextRecorder ==
    \/ \E e \in TickEvents : OnFrameTick(e)
    \/ \E e \in PlanEvents : OnFramePlan(e)
    \/ \E e \in PhaseBeginEvents : OnPhaseBegin(e)
    \/ \E e \in PhaseEndEvents : OnPhaseEnd(e)
    \/ \E e \in SubmitEvents : OnSubmit(e)
    \/ \E e \in PresentFeedbackEvents : OnPresentFeedback(e)
    \/ \E e \in SummaryEvents : OnFrameSummary(e)
    \/ \E n \in SliceLens : OnLayerChanges(42, n)
    \/ \E n \in SliceLens \ {2} : OnDamageRects(258, n)
    \/ Decode
    \/ \E k \in 1..MaxRecordLen : DecodeTruncated(k)
    \/ \E t \in UnknownTags, rest \in TrailingBytes : DecodeUnknown(t, rest)
    \/ IterNext

SpecRecorder == Init /\ [][NextRecorder]_vars

\* -- The store with its heap blocks counted: the caller keeps one
\* FrameChanges and hands it to every evaluate_into.
HeapOnly == UNCHANGED <<schedVars, timingVars, recorderVars, queueVars, syncVars, lateVars>>

\* create_layer and destroy_layer push onto the pending lists.
PendingPushes ==
    LET added == Pushes([cap |-> capacity.pending_added, allocs |-> 0],
                        Len(pending_added), Len(pending_added'))
        removed == Pushes([cap |-> capacity.pending_removed, allocs |-> 0],
                          Len(pending_removed), Len(pending_removed'))
    IN /\ capacity' = [capacity EXCEPT !.pending_added = added.cap,
                                       !.pending_removed = removed.cap]
       /\ allocs' = 0

\* evaluate_into(&mut changes) on the caller's own buffer: clear keeps every
\* block; traversal_order is cleared and pushed onto; each drained channel is
\* collected into a new Vec that replaces the caller's; hidden and unhidden
\* are pushed onto the caller's Vecs; the pending lists are swapped with the
\* caller's added and removed.
EvaluateIntoHeap ==
    LET order == IF traversal_dirty
                 THEN Pushes([cap |-> capacity.traversal_order, allocs |-> 0],
                             0, Len(traversal_order'))
                 ELSE [cap |-> capacity.traversal_order, allocs |-> 0]
        transforms == Collected(changes'.transforms)
        opacities == Collected(changes'.opacities)
        clips == Collected(changes'.clips)
        contents == Collected(changes'.content)
        topology == Collected(DrainLocal(dirty, TOPOLOGY))
        hidden == Pushes([cap |-> capacity.changes.hidden, allocs |-> 0],
                         0, Len(changes'.hidden))
        unhidden == Pushes([cap |-> capacity.changes.unhidden, allocs |-> 0],
                           0, Len(changes'.unhidden))
    IN /\ capacity' =
              [changes |-> [transforms |-> transforms.cap,
                            opacities |-> opacities.cap,
                            clips |-> clips.cap,
                            content |-> contents.cap,
                            hidden |-> hidden.cap,
                            unhidden |-> unhidden.cap,
                            added |-> capacity.pending_added,
                            removed |-> capacity.pending_removed],
               traversal_order |-> order.cap,
               pending_added |-> capacity.changes.added,
               pending_removed |-> capacity.changes.removed]
       /\ allocs' = order.allocs + transforms.allocs + opacities.allocs
                        + clips.allocs + contents.allocs + topology.allocs
                        + hidden.allocs + unhidden.allocs

\* One call of a program that respects the preconditions, blocks counted.
Heap(A) ==
    Running /\ Step(MaxHeapSteps) /\ A /\ Succeeds /\ PendingPushes /\ HeapOnly

EvaluateInto ==
    Running /\ Step(MaxHeapSteps) /\ evaluate_into(changes) /\ Succeeds
        /\ EvaluateIntoHeap /\ HeapOnly

NextHeap ==
    \/ Heap(Create)
    \/ Heap(Destroy)
    \/ Heap(AddChild)
    \/ Heap(\E id \in issued : set_opacity(id, 1))
    \/ Heap(\E id \in issued : set_clip(id, "Rect"))
    \/ Heap(\E id \in issued : \E f \in FlagInputs : set_flags(id, f))
    \/ EvaluateInto

SpecHeap == Init /\ [][NextHeap]_vars

\* -- One bounded queue: built with a capacity, then pushed and popped.  The
\* items pushed are numbered in push order; `pushed` and `popped` keep what
\* was pushed and what each pop returned.
CapacityInputs == 0..MaxCapacity

QueueOnly == StoreIdle /\ UNCHANGED <<schedVars, timingVars, recorderVars, heapVars, syncVars, lateVars>>

WithCapacity(cap) ==
    /\ ~queue.some
    /\ queue' = Some(BoundedQueue_with_capacity(cap))
    /\ requested' = cap
    /\ UNCHANGED <<pushed, popped>>
    /\ QueueOnly

QueuePush ==
    /\ queue.some
    /\ Len(pushed) < MaxPushes
    /\ queue' = Some(push(queue.value, Len(pushed) + 1))
    /\ pushed' = Append(pushed, Len(pushed) + 1)
    /\ UNCHANGED <<requested, popped>>
    /\ QueueOnly

QueuePop ==
    /\ queue.some
    /\ Len(popped) < MaxPops
    /\ queue' = Some(pop(queue.value).queue)
    /\ popped' = Append(popped, pop(queue.value).item)
    /\ UNCHANGED <<requested, pushed>>
    /\ QueueOnly

NextQueue ==
    \/ \E cap \in CapacityInputs : WithCapacity(cap)
    \/ QueuePush
    \/ QueuePop

SpecQueue == Init /\ [][NextQueue]_vars

\* -- One tracker: built with a ring size and a seed, then fed samples.
\* `seeded` keeps the seed and `observed` the frame_delta_ms of every sample
\* observed, in order.
RingSizes == 0..MaxRing

SeedInput == 17

\* The window the sparkline is drawn over.
SparkMin == 8

SparkMax == 33

SampleInputs ==
    {[confidence |-> conf, phase_error_ms |-> err, hard_miss |-> miss[1],
      soft_miss |-> miss[2], frame_delta_ms |-> delta] :
        conf \in {"Predictive", "Estimated", "PacingOnly"},
        err \in {-40, 10},
        miss \in {<<FALSE, FALSE>>, <<TRUE, FALSE>>, <<FALSE, TRUE>>},
        delta \in {8, 16, 33}}

SyncPanic == [panic |-> "attempt to calculate the remainder with a divisor of zero"]

SyncOnly ==
    StoreIdle /\ UNCHANGED <<schedVars, timingVars, recorderVars, heapVars, queueVars, lateVars>>

SyncTrackerNew(size) ==
    /\ ~tracker.some
    /\ tracker' = Some(SyncTracker_new(size, SeedInput))
    /\ seeded' = SeedInput
    /\ UNCHANGED <<sync_report, observed>>
    /\ SyncOnly

SyncObserve(sample) ==
    /\ tracker.some
    /\ sync_report # Some(SyncPanic)
    /\ Len(observed) < MaxObserves
    /\ IF tracker.value.size = 0
       THEN /\ tracker' = Some(CountFrame(tracker.value))
            /\ sync_report' = Some(SyncPanic)
            /\ UNCHANGED observed
       ELSE /\ tracker' = Some(SyncTracker_observe(tracker.value, sample).tracker)
            /\ sync_report' = Some(SyncTracker_observe(tracker.value, sample).report)
            /\ observed' = Append(observed, sample.frame_delta_ms)
    /\ UNCHANGED seeded
    /\ SyncOnly

NextSync ==
    \/ \E size \in RingSizes : SyncTrackerNew(size)
    \/ \E sample \in SampleInputs : SyncObserve(sample)

SpecSync == Init /\ [][NextSync]_vars

\* The components above, untouched.
EarlyIdle == UNCHANGED <<timingVars, recorderVars, heapVars, queueVars, syncVars>>

\* -- The affine clock, fed every observation and reset at any time.  `twin` is
\* a clock built by AffineClock::new with the same parameters at the last reset
\* (or together with `clock`) and fed every observation since; `answer` is what
\* the last media_time_at call returned from each of the two.
ClockInputs ==
    {[initial_rate |-> Whole(r), rate_alpha |-> a, offset_alpha |-> b] :
        r \in {1, 2}, a \in {Frac(1, 2), Whole(1)}, b \in {Frac(1, 2), Whole(1)}}

HostInputs == 0 .. MaxHost

MediaInputs == {Whole(m) : m \in 0 .. MaxMedia}

ClockOnly ==
    StoreIdle /\ UNCHANGED schedVars /\ EarlyIdle
        /\ UNCHANGED <<loopVars, presenterVars, rafVars>>

NewClock(p) ==
    /\ ~clock.some
    /\ clock' = Some(AffineClock_new(p.initial_rate, p.rate_alpha, p.offset_alpha))
    /\ twin' = Some(AffineClock_new(p.initial_rate, p.rate_alpha, p.offset_alpha))
    /\ built' = Some(p)
    /\ UNCHANGED <<updates, answer>>
    /\ ClockOnly

UpdateClock(host_ticks, media_time) ==
    /\ clock.some
    /\ updates < MaxUpdates
    /\ updates' = updates + 1
    /\ clock' = Some(AffineClock_update(clock.value, host_ticks, media_time))
    /\ twin' = Some(AffineClock_update(twin.value, host_ticks, media_time))
    /\ answer' = None
    /\ UNCHANGED built
    /\ ClockOnly

ResetClock ==
    /\ clock.some
    /\ clock' = Some(AffineClock_reset(clock.value))
    /\ twin' = Some(AffineClock_new(built.value.initial_rate, built.value.rate_alpha,
                                    built.value.offset_alpha))
    /\ answer' = None
    /\ UNCHANGED <<built, updates>>
    /\ ClockOnly

MediaTimeAt(host_ticks) ==
    /\ clock.some
    /\ answer' = Some([host |-> host_ticks,
                       got |-> media_time_at(clock.value, host_ticks),
                       fresh |-> media_time_at(twin.value, host_ticks)])
    /\ UNCHANGED <<clock, twin, built, updates>>
    /\ ClockOnly

NextClock ==
    \/ \E p \in ClockInputs : NewClock(p)
    \/ \E h \in HostInputs : \E m \in MediaInputs : UpdateClock(h, m)
    \/ ResetClock
    \/ \E h \in HostInputs : MediaTimeAt(h)

SpecClock == Init /\ [][NextClock]_vars

\* -- The frame loop of the web example: every tick of the RafLoop runs on_tick,
\* which takes the hints from the web backend, plans, builds the frame and
\* observes a feedback built without an actual present time.  `on_tick` holds
\* the callback's position and locals, `frames` counts the frames observed and
\* `late` tells whether every one of them was submitted strictly after its
\* tick's now.
WebConfigs == {web} \cup {c \in Configs : c.degradation_policy.kind = "Adaptive"}

\* The tick the RafLoop hands to the callback.
WebTick(now, frame_index) ==
    [now |-> now, predicted_present |-> None, refresh_interval |-> None,
     confidence |-> "PacingOnly", frame_index |-> frame_index, output |-> 0,
     prev_actual_present |-> None]

\* The timestamps of the ticks and the readings of performance.now() at the
\* start of on_tick, and the readings at its end.
NowInputs == 1 .. (MaxTicks - 1)

SubmitNowInputs == 1 .. MaxTicks

LoopOnly == StoreIdle /\ EarlyIdle /\ UNCHANGED <<clockVars, presenterVars, rafVars>>

\* on_tick up to the plan.
OnTickPlan(now, build_start) ==
    /\ on_tick.pc = "idle"
    /\ frames < MaxFrames
    /\ LET tick == WebTick(now, frames)
           hints == web_compute_present_hints(tick, scheduler.safety_margin_ticks)
       IN  /\ plan(tick, hints)
           /\ on_tick' = [pc |-> "planned", tick |-> Some(tick), hints |-> Some(hints),
                          build_start |-> build_start, feedback |-> None]
    /\ UNCHANGED <<runs, frames, late>>
    /\ LoopOnly

\* on_tick from the evaluate to the observe.
OnTickObserve(submitted_at) ==
    /\ on_tick.pc = "planned"
    /\ submitted_at >= on_tick.build_start
    /\ LET feedback == PresentFeedback_new(on_tick.hints.value, on_tick.build_start,
                                           submitted_at, None)
       IN  /\ observe(feedback)
           /\ runs' = RunsAfter(feedback.missed_deadline)
           /\ on_tick' = [on_tick EXCEPT !.pc = "idle", !.feedback = Some(feedback)]
           /\ late' = (late /\ submitted_at > on_tick.tick.value.now)
    /\ frames' = frames + 1
    /\ LoopOnly

InitLoop ==
    /\ StoreNew
    /\ \E config \in WebConfigs : scheduler = Scheduler_new(config)
    /\ frame_plan = NoPlan
    /\ runs = NoRuns
    /\ RestNew

NextLoop ==
    \/ \E now \in NowInputs, build_start \in NowInputs : OnTickPlan(now, build_start)
    \/ \E submitted_at \in SubmitNowInputs : OnTickObserve(submitted_at)

SpecLoop == InitLoop /\ [][NextLoop]_vars

\* -- A store and its presenter: layers are created, destroyed, linked and
\* hidden, and every frame evaluates the store and applies the change-set, as
\* on_tick does.
PresentFrame ==
    /\ Running /\ Step(MaxSteps)
    /\ evaluate
    /\ presenter' = apply(presenter, traversal_order', effective_hidden', changes')
    /\ UNCHANGED schedVars /\ EarlyIdle /\ UNCHANGED <<clockVars, loopVars, rafVars>>

NextPresenter ==
    \/ Call(Create)
    \/ Call(Destroy)
    \/ Call(AddChild)
    \/ Call(\E id \in issued : \E f \in FlagInputs : set_flags(id, f))
    \/ PresentFrame

SpecPresenter == Init /\ [][NextPresenter]_vars

\* -- A RafLoop in a browser: start and stop are called between the browser's
\* callbacks and from inside the tick callback; an animation frame runs the
\* registrations that were pending when it began, one after the other.
\* `in_callback` tells whether the user's tick callback is running, and
\* `delivered` counts the ticks it received in the animation frame under way.
RafOnly ==
    StoreIdle /\ UNCHANGED schedVars /\ EarlyIdle
        /\ UNCHANGED <<clockVars, loopVars, presenterVars>>

RafStart ==
    /\ raf_calls < MaxRafCalls
    /\ raf_calls' = raf_calls + 1
    /\ start
    /\ UNCHANGED <<in_callback, delivered>>
    /\ RafOnly

RafStop ==
    /\ raf_calls < MaxRafCalls
    /\ raf_calls' = raf_calls + 1
    /\ stop
    /\ UNCHANGED <<in_callback, delivered>>
    /\ RafOnly

\* The browser begins an animation frame with the registrations pending now.
AnimationFrame ==
    /\ ~in_callback
    /\ browser.queue = <<>>
    /\ browser.pending # <<>>
    /\ browser.frames < MaxAnimationFrames
    /\ browser' = [browser EXCEPT !.queue = browser.pending,
                                  !.pending = <<>>,
                                  !.frames = @ + 1]
    /\ delivered' = 0
    /\ UNCHANGED <<raf, in_callback, raf_calls>>
    /\ RafOnly

\* The browser runs the next registration of the frame: the closure, up to
\* the call of the user's callback.
RunClosure ==
    /\ ~in_callback
    /\ browser.queue # <<>>
    /\ browser' = [browser EXCEPT !.queue = Tail(@)]
    /\ IF ~raf.running
       THEN UNCHANGED <<raf, in_callback, delivered>>
       ELSE /\ raf' = [raf EXCEPT !.frame_counter = @ + 1]
            /\ in_callback' = TRUE
            /\ delivered' = delivered + 1
    /\ UNCHANGED raf_calls
    /\ RafOnly

\* The user's callback returns and the closure registers for the next frame
\* if the loop is running.
ReturnToClosure ==
    /\ in_callback
    /\ in_callback' = FALSE
    /\ IF raf.running /\ raf.closure.some
       THEN /\ browser' = request_animation_frame(browser, raf.closure.value)
            /\ raf' = [raf EXCEPT !.raf_id = browser.next_id]
       ELSE UNCHANGED <<raf, browser>>
    /\ UNCHANGED <<delivered, raf_calls>>
    /\ RafOnly

NextRaf ==
    \/ RafStart
    \/ RafStop
    \/ AnimationFrame
    \/ RunClosure
    \/ ReturnToClosure

SpecRaf == Init /\ [][NextRaf]_vars

\* ===================================================================== claims
\* A destroyed handle whose slot a later create_layer has taken again.
Recycled(id) ==
    /\ id \in destroyed
    /\ \E other \in issued \ destroyed : other.idx = id.idx

\* C1: for every LayerId ever returned by create_layer, is_alive(id) is true
\* exactly while the layer has not been destroyed since id was issued; it stays
\* false after the slot is recycled by a later create_layer.
C1_IsAliveExactlyUntilDestroyed ==
    \A id \in issued : is_alive(id) <=> id \notin destroyed

C1_Witness ==
    \E id \in issued :
        /\ Recycled(id)
        /\ ~is_alive(id)
        /\ \E other \in issued : other.idx = id.idx /\ is_alive(other)

\* Every call of a store operation that takes a LayerId, made with the handle d
\* in one of its handle arguments.
CallsWith(d) ==
    \/ destroy_layer(d)
    \/ remove_from_parent(d)
    \/ get(d)
    \/ \E x \in issued : add_child(d, x) \/ add_child(x, d)
    \/ \E x \in issued : reparent(d, x) \/ reparent(x, d)
    \/ \E x \in issued : insert_before(d, x) \/ insert_before(x, d)
    \/ \E t \in XfInputs(d.idx) : set_transform(d, t)
    \/ \E o \in OpacityInputs(d.idx) : set_opacity(d, o)
    \/ \E c \in ClipInputs : set_clip(d, c)
    \/ \E c \in ContentInputs : set_content(d, c)
    \/ \E f \in FlagInputs : set_flags(d, f)

\* C7: every store operation that takes a LayerId (other than is_alive),
\* called with the handle of a destroyed layer, also after its slot has been
\* recycled, fails with "stale LayerId" and leaves the whole store, the slot's
\* new occupant included, as it was.
C7_StaleHandleFails ==
    [][\A d \in destroyed :
          CallsWith(d) => (last' = StaleLayerId /\ UNCHANGED storeVars)]_vars

C7_Witness ==
    /\ last = StaleLayerId
    /\ \E d \in destroyed : Recycled(d)

\* ---- what the claims about evaluate compare the store with
\* No live layer is its own ancestor.
Acyclic == \A i \in Live : i \notin Range(AncestorChain(parent, i, len))

\* The ancestors of idx, root first, and idx itself.
PathTo(idx) == Append(AncestorChain(parent, idx, len), idx)

RECURSIVE ProductOfTransforms(_, _)
ProductOfTransforms(path, n) ==
    IF n = 0 THEN IDENTITY
    ELSE Mul(ProductOfTransforms(path, n - 1), local_transform[path[n]])

RECURSIVE ProductOfOpacities(_, _)
ProductOfOpacities(path, n) ==
    IF n = 0 THEN 1
    ELSE OpacityMul(ProductOfOpacities(path, n - 1), local_opacity[path[n]])

AnyHidden(path) == \E n \in 1 .. Len(path) : flags[path[n]].hidden

Evaluated == last = "evaluate"

TreeEdges == {<<c, parent[c]>> : c \in {i \in Live : parent[i] # INVALID}}

\* The store is a forest and the tracker's edges are the child -> parent links.
WellFormed ==
    /\ Acyclic
    /\ deps[TRANSFORM] = TreeEdges
    /\ deps[OPACITY] = TreeEdges

\* C2: after any evaluate, the world_transform of every live layer is the
\* product of local_transform over its ancestors (root first) and itself.
\* Stated for the stores whose parent links form a forest (the chain of
\* ancestors is finite) mirrored by the tracker's edges.
C2_WorldTransformIsProduct ==
    (Evaluated /\ WellFormed) =>
        \A idx \in Live :
            world_transform[idx] =
                ProductOfTransforms(PathTo(idx), Len(PathTo(idx)))

\* C3: after any evaluate, the effective_opacity of every live layer is the
\* product of local_opacity over its ancestors and itself (forest stores).
C3_EffectiveOpacityIsProduct ==
    (Evaluated /\ WellFormed) =>
        \A idx \in Live :
            effective_opacity[idx] =
                ProductOfOpacities(PathTo(idx), Len(PathTo(idx)))

\* C4: after any evaluate, effective_hidden of every live layer is true iff
\* the hidden flag is set on the layer or on one of its ancestors (forest
\* stores).
C4_EffectiveHiddenIsOr ==
    (Evaluated /\ WellFormed) =>
        \A idx \in Live : effective_hidden[idx] <=> AnyHidden(PathTo(idx))

\* C6: the layer tree is acyclic after any sequence of topology calls made
\* with live handles: no live layer is its own ancestor.
C6_TreeIsAcyclic == Acyclic

\* ---- traversal order
Pos(x) == CHOOSE i \in 1 .. Len(traversal_order) : traversal_order[i] = x

Roots == {i \in Live : parent[i] = INVALID}

\* traversal_order lists exactly the live slots, once each; roots ascend; a
\* parent comes before its children, a child before its next sibling, and every
\* subtree fills the positions right after its root.
IsPreorder ==
    /\ Range(traversal_order) = Live
    /\ Len(traversal_order) = Cardinality(Live)
    /\ \A r1, r2 \in Roots : r1 < r2 => Pos(r1) < Pos(r2)
    /\ \A c \in Live : parent[c] # INVALID => Pos(parent[c]) < Pos(c)
    /\ \A c \in Live : next_sibling[c] # INVALID => Pos(c) < Pos(next_sibling[c])
    /\ \A x \in Live :
          {Pos(y) : y \in Subtree(parent, x)} =
              Pos(x) .. (Pos(x) + Cardinality(Subtree(parent, x)) - 1)

\* C5: after any evaluate, traversal_order is a depth-first pre-order of the
\* layer forest that contains every live layer exactly once and no destroyed
\* slot, roots in ascending slot order, each parent before its children in
\* sibling order.
C5_TraversalIsPreorder == Evaluated => IsPreorder

\* The same statement for the stores whose parent links form a forest.
TraversalIsPreorderOfForest == (Evaluated /\ Acyclic) => IsPreorder

\* ---- change-set contents
Reported(list) == Range(list)

DirectChannels == {TRANSFORM, OPACITY, CLIP, CONTENT}

ChangesOf(ch) ==
    CASE ch = TRANSFORM -> changes.transforms
      [] ch = OPACITY -> changes.opacities
      [] ch = CLIP -> changes.clips
      [] ch = CONTENT -> changes.content

\* What may put a slot in a channel of the change-set: a setter called on the
\* slot and, for the two inherited channels, a setter called on an ancestor or a
\* topology call that moved the slot's subtree.
MayReport(ch) ==
    IF ch \in {TRANSFORM, OPACITY}
    THEN owed.direct[ch] \cup owed.inherited[ch] \cup owed.moved
    ELSE owed.direct[ch]

\* C8 (as amended): every setter call made on a layer still alive at evaluate
\* puts its slot in the matching list of the next FrameChanges (set_transform
\* and set_flags in transforms, set_opacity in opacities, set_clip in clips,
\* set_content in content), and a later evaluate reports the slot for that
\* channel again only if it was set again or, for transforms and opacities, an
\* ancestor was set or a topology call moved its subtree since.
C8_MutationsReportedOnce ==
    Evaluated =>
        \A ch \in DirectChannels :
            /\ owed.direct[ch] \subseteq Reported(ChangesOf(ch))
            /\ Reported(ChangesOf(ch)) \subseteq MayReport(ch)

\* A slot whose clip was set and reported by an earlier evaluate, and which the
\* evaluate that just returned does not report, while it reports another
\* setter call.
C8_Witness ==
    /\ Evaluated
    /\ \E idx \in Live :
          /\ clip[idx] = "Rect"
          /\ idx \notin owed.direct[CLIP]
          /\ idx \notin Reported(changes.clips)
    /\ owed.direct[TRANSFORM] # {}
    /\ owed.direct[CONTENT] # {}

\* C8 as stated: every setter call is reported by the next evaluate, and a
\* slot that an earlier evaluate listed for a channel is listed for it again
\* only if, since then, a setter of that channel was called on it (or, for
\* transforms and opacities, a topology call moved it).
C8_ReportedAgainOnlyWhenMutatedAgain ==
    Evaluated =>
        /\ \A ch \in DirectChannels :
              owed.direct[ch] \subseteq Reported(ChangesOf(ch))
        /\ \A ch \in {CLIP, CONTENT} :
              Reported(ChangesOf(ch)) \subseteq owed.direct[ch]
        /\ \A ch \in {TRANSFORM, OPACITY} :
              (Reported(ChangesOf(ch)) \cap listed[ch]) \subseteq
                  (owed.direct[ch] \cup owed.moved)

\* C9: setting a layer's transform produces a transforms entry for the layer
\* and for every one of its descendants in the next evaluate; setting its
\* opacity produces an opacities entry for each of them.
C9_SetterReportsDescendants ==
    Evaluated =>
        \A ch \in {TRANSFORM, OPACITY} :
            (owed.direct[ch] \cup owed.inherited[ch]) \subseteq
                Reported(ChangesOf(ch))

\* C10: each topology mutation marks TRANSFORM and OPACITY dirty for the whole
\* moved subtree: the next evaluate lists the moved layer and every one of its
\* descendants in both transforms and opacities (forest stores).
C10_MovedSubtreeReported ==
    (Evaluated /\ WellFormed) =>
        /\ owed.moved \subseteq Reported(changes.transforms)
        /\ owed.moved \subseteq Reported(changes.opacities)

\* ---- hidden / unhidden
Count(list, x) == Cardinality({i \in 1 .. Len(list) : list[i] = x})

HandlesOf(S, idx) == {h \in S : h.idx = idx}

\* C12: over the life of the store, every slot has been reported in added
\* once per create_layer that returned it and in removed once per destroy_layer
\* of it: what the evaluates so far have listed, together with what is still
\* pending for the next evaluate, counts each life of the slot exactly once,
\* also when the slot is recycled; right after an evaluate nothing is pending.
C12_AddedRemovedOncePerLife ==
    /\ \A idx \in Slots :
          /\ Count(tally.added, idx) + Count(pending_added, idx) =
                 Cardinality(HandlesOf(issued, idx))
          /\ Count(tally.removed, idx) + Count(pending_removed, idx) =
                 Cardinality(HandlesOf(destroyed, idx))
    /\ Evaluated => (pending_added = <<>> /\ pending_removed = <<>>)

\* A recycled slot: reported added by two evaluates, this one included, and
\* removed by one.
C12_Witness ==
    /\ Evaluated
    /\ \E idx \in Slots :
          /\ Count(changes.added, idx) = 1
          /\ Count(tally.added, idx) = 2
          /\ Count(changes.removed, idx) = 0
          /\ Count(tally.removed, idx) = 1

\* ---- evaluate with nothing to report
EmptyChanges(c) ==
    /\ c.added = <<>> /\ c.removed = <<>>
    /\ c.transforms = <<>> /\ c.opacities = <<>>
    /\ c.clips = <<>> /\ c.content = <<>>
    /\ c.hidden = <<>> /\ c.unhidden = <<>>
    /\ c.topology_changed = FALSE

\* C13: an evaluate that directly follows an evaluate (no store mutation in
\* between) produces a change-set whose eight lists are empty and whose
\* topology_changed is false, whatever the FrameChanges handed to it held.
C13_EvaluateAfterEvaluateIsEmpty ==
    [][(last = "evaluate" /\ last' = "evaluate") => EmptyChanges(changes')]_vars

\* An empty change-set returned for a store that holds a layer whose clip an
\* earlier evaluate reported: nothing was called since that evaluate.
C13_Witness ==
    /\ Evaluated
    /\ EmptyChanges(changes)
    /\ owed = NothingOwed
    /\ \E idx \in Live : clip[idx] = "Rect"

\* ---- destroy_layer on a layer that has children
\* C14: destroy_layer called on a live layer that has at least one child fails
\* with "cannot destroy layer with children" and changes nothing: the layer
\* stays alive, every slot keeps its parent, the free list and the pending
\* removed list are as before, and so is the rest of the store.
C14_DestroyWithChildrenFails ==
    [][\A id \in issued :
          (is_alive(id) /\ first_child[id.idx] # INVALID /\ destroy_layer(id))
          => /\ last' = HasChildren
             /\ generation'[id.idx] = id.generation
             /\ parent' = parent
             /\ free_list' = free_list
             /\ pending_removed' = pending_removed
             /\ UNCHANGED storeVars]_vars

C14_Witness ==
    /\ last = HasChildren
    /\ \E id \in issued :
          /\ is_alive(id)
          /\ first_child[id.idx] # INVALID
          /\ parent[first_child[id.idx]] = id.idx

\* ---- child lists
ChildListCorrect(p) ==
    LET w == children(p)
    IN  /\ Len(w) <= len
        /\ Range(w) = {c \in Live : parent[c] = p}
        /\ Cardinality(Range(w)) = Len(w)
        /\ w # <<>> => prev_sibling[w[1]] = INVALID
        /\ \A i \in 1 .. Len(w) :
              /\ next_sibling[w[i]] # INVALID
                    => prev_sibling[next_sibling[w[i]]] = w[i]
              /\ prev_sibling[w[i]] # INVALID
                    => next_sibling[prev_sibling[w[i]]] = w[i]

\* C15: in every state the store is in after a call of create, destroy or the
\* topology API, for every live parent p the walk from first_child[p] along
\* next_sibling ends, visits exactly the live layers whose parent is p, each
\* once, starts at a layer without prev_sibling, and prev_sibling is the
\* inverse of next_sibling along it.
C15_ChildListsAreDoublyLinked == \A p \in Live : ChildListCorrect(p)

\* A parent with two children, one of them in a recycled slot, so a destroy
\* and topology calls have acted.
C15_Witness ==
    \E p \in Live :
        /\ Len(children(p)) = 2
        /\ \E d \in destroyed : d.idx \in Range(children(p))

\* ---- sibling order
Without(w, c) == SelectSeq(w, LAMBDA x : x # c)

\* w with c placed immediately before s.
PlacedBefore(w, c, s) ==
    LET i == CHOOSE k \in 1 .. Len(w) : w[k] = s
    IN  SubSeq(w, 1, i - 1) \o <<c>> \o SubSeq(w, i, Len(w))

\* children(id) for the slot idx in the state a call leaves.
ChildrenAfter(idx) == ChildrenFrom(next_sibling', first_child'[idx], len' + 1)

\* The child lists of the live slots outside S are as they were.
OtherChildListsKept(S) == \A q \in Live \ S : ChildrenAfter(q) = children(q)

\* C16: add_child and reparent make the child the last of the parent's
\* children, insert_before(child, sibling) places child immediately before
\* sibling among the children of sibling's parent, remove_from_parent,
\* reparent and destroy_layer take the child out of its old parent's children
\* and keep the order of the rest, and no call changes the children of any
\* other parent; children(parent) is read in that order.
C16_SiblingOrderFollowsCalls ==
    [][\A x, y \in issued :
          /\ (add_child(x, y) /\ last' = "ok")
                => /\ ChildrenAfter(x.idx) = Append(children(x.idx), y.idx)
                   /\ OtherChildListsKept({x.idx})
          /\ (reparent(y, x) /\ last' = "ok")
                => /\ ChildrenAfter(x.idx) = Append(Without(children(x.idx), y.idx), y.idx)
                   /\ parent[y.idx] \notin {INVALID, x.idx}
                         => ChildrenAfter(parent[y.idx]) = Without(children(parent[y.idx]), y.idx)
                   /\ OtherChildListsKept({x.idx, parent[y.idx]})
          /\ (insert_before(x, y) /\ last' = "ok")
                => /\ ChildrenAfter(parent[y.idx]) = PlacedBefore(children(parent[y.idx]), x.idx, y.idx)
                   /\ OtherChildListsKept({parent[y.idx]})
          /\ (remove_from_parent(y) /\ last' = "ok")
                => /\ ChildrenAfter(parent[y.idx]) = Without(children(parent[y.idx]), y.idx)
                   /\ OtherChildListsKept({parent[y.idx]})
          /\ (destroy_layer(y) /\ last' = "ok")
                => /\ parent[y.idx] # INVALID
                         => ChildrenAfter(parent[y.idx]) = Without(children(parent[y.idx]), y.idx)
                   /\ \A q \in Live \ {parent[y.idx], y.idx} : ChildrenAfter(q) = children(q)]_vars

\* A parent whose two children are read in the order insert_before or a
\* removal followed by an append produces: the later-created slot first.
C16_Witness ==
    \E p \in Live : \E c1, c2 \in Live :
        /\ children(p) = <<c1, c2>>
        /\ c1 > c2
        /\ p \notin {c1, c2}

\* ---- pipeline depth
IsAdaptive == scheduler.config.degradation_policy.kind = "Adaptive"

\* C17: under Adaptive{miss_threshold = k} at a depth d below max_depth, an
\* observation raises the depth, to d + 1, exactly when it is a Some(true)
\* that brings the run of consecutive Some(true) observations to k (for k = 0,
\* to 1), and that observation zeroes the miss counter; a Some(true) that
\* leaves the run shorter keeps the depth; a Some(false) or None observation
\* does not raise the depth and zeroes the miss counter and the run; and below
\* max_depth the run stays shorter than k, so the k-th miss is the one that
\* raises the depth.
C17_KMissesRaiseDepth ==
    [][\A feedback \in FeedbackInputs :
          (IsAdaptive /\ scheduler.pipeline_depth < scheduler.config.max_depth
             /\ Observe(feedback))
          => LET k == scheduler.config.degradation_policy.miss_threshold
                 d == scheduler.pipeline_depth
                 miss == feedback.missed_deadline = Some(TRUE)
             IN  /\ (miss /\ runs.misses + 1 >= k)
                       => /\ scheduler'.pipeline_depth = d + 1
                          /\ scheduler'.consecutive_misses = 0
                 /\ (miss /\ runs.misses + 1 < k)
                       => scheduler'.pipeline_depth = d
                 /\ ~miss
                       => /\ scheduler'.pipeline_depth <= d
                          /\ scheduler'.consecutive_misses = 0
                          /\ runs'.misses = 0
                 /\ (k >= 1 /\ scheduler'.pipeline_depth < scheduler.config.max_depth)
                       => runs'.misses < k]_vars

\* The depth has been raised once with miss_threshold = MaxThreshold, and the
\* counters are back at zero.
C17_Witness ==
    /\ IsAdaptive
    /\ scheduler.config.degradation_policy.miss_threshold = MaxThreshold
    /\ scheduler.pipeline_depth = scheduler.config.initial_depth + 1
    /\ scheduler.pipeline_depth <= scheduler.config.max_depth
    /\ scheduler.consecutive_misses = 0
    /\ runs = NoRuns
    /\ scheduler.build_cost_ema.initialized

\* C18: under Adaptive{recovery_threshold = r} at a depth d above min_depth, an
\* observation lowers the depth, to d - 1, exactly when it is a Some(false)
\* that brings the run of consecutive Some(false) observations to r (for
\* r = 0, to 1), and that observation zeroes the hit counter; a Some(false)
\* that leaves the run shorter keeps the depth; a Some(true) or None
\* observation does not lower the depth and zeroes the hit counter and the
\* run; and above min_depth the run stays shorter than r.
C18_RHitsLowerDepth ==
    [][\A feedback \in FeedbackInputs :
          (IsAdaptive /\ scheduler.pipeline_depth > scheduler.config.min_depth
             /\ Observe(feedback))
          => LET r == scheduler.config.degradation_policy.recovery_threshold
                 d == scheduler.pipeline_depth
                 hit == feedback.missed_deadline = Some(FALSE)
             IN  /\ (hit /\ runs.hits + 1 >= r)
                       => /\ scheduler'.pipeline_depth = d - 1
                          /\ scheduler'.consecutive_hits = 0
                 /\ (hit /\ runs.hits + 1 < r)
                       => scheduler'.pipeline_depth = d
                 /\ ~hit
                       => /\ scheduler'.pipeline_depth >= d
                          /\ scheduler'.consecutive_hits = 0
                          /\ runs'.hits = 0
                 /\ (r >= 1 /\ scheduler'.pipeline_depth > scheduler.config.min_depth)
                       => runs'.hits < r]_vars

\* The depth has been lowered once with recovery_threshold = MaxThreshold.
C18_Witness ==
    /\ IsAdaptive
    /\ scheduler.config.degradation_policy.recovery_threshold = MaxThreshold
    /\ scheduler.pipeline_depth = scheduler.config.initial_depth - 1
    /\ scheduler.pipeline_depth >= scheduler.config.min_depth
    /\ scheduler.consecutive_hits = 0
    /\ runs = NoRuns
    /\ scheduler.build_cost_ema.initialized

\* C19: under the Fixed policy the pipeline depth is initial_depth after every
\* sequence of observe calls.
C19_FixedKeepsDepth ==
    scheduler.config.degradation_policy = Fixed
        => scheduler.pipeline_depth = scheduler.config.initial_depth

\* A Fixed scheduler that has observed a run of misses long enough for every
\* threshold, at a depth below max_depth.
C19_Witness ==
    /\ scheduler.config.degradation_policy = Fixed
    /\ runs.misses > MaxThreshold
    /\ scheduler.pipeline_depth < scheduler.config.max_depth
    /\ scheduler.pipeline_depth > scheduler.config.min_depth

ValidDepths ==
    /\ scheduler.config.min_depth <= scheduler.config.initial_depth
    /\ scheduler.config.initial_depth <= scheduler.config.max_depth

DepthStep == scheduler'.pipeline_depth - scheduler.pipeline_depth

\* C20: with min_depth <= initial_depth <= max_depth, the depth stays within
\* [min_depth, max_depth] through every sequence of plan and observe calls;
\* and under every configuration one observe moves the depth by at most one
\* and a plan does not move it.
C20_DepthWithinConfiguredBounds ==
    /\ [](ValidDepths => /\ scheduler.config.min_depth <= scheduler.pipeline_depth
                         /\ scheduler.pipeline_depth <= scheduler.config.max_depth)
    /\ [][/\ DepthStep \in {-1, 0, 1}
          /\ (\E tick \in TickInputs, hints \in HintInputs : Plan(tick, hints))
                => DepthStep = 0]_vars

\* A scheduler held at max_depth: it was raised there, has been missing ever
\* since, and a plan has been taken at that depth.
C20_Witness ==
    /\ ValidDepths
    /\ IsAdaptive
    /\ scheduler.config.degradation_policy.miss_threshold >= 1
    /\ scheduler.config.initial_depth < scheduler.config.max_depth
    /\ scheduler.pipeline_depth = scheduler.config.max_depth
    /\ scheduler.consecutive_misses > scheduler.config.degradation_policy.miss_threshold
    /\ frame_plan.pipeline_depth = scheduler.config.max_depth

\* ---- plan
saturating_add(t, d) == IF t + d > MaxTicks THEN MaxTicks ELSE t + d

\* C21: for every PacingOnly tick, whatever the hints and the tick's
\* predicted_present, plan returns present_time = None and semantic_time =
\* tick.now + nominal_latency, saturating at the largest host time.
C21_PacingOnlyPlanSaturates ==
    [][\A tick \in TickInputs, hints \in HintInputs :
          (tick.confidence = "PacingOnly" /\ Plan(tick, hints))
          => /\ frame_plan'.present_time = None
             /\ frame_plan'.semantic_time =
                    saturating_add(tick.now, scheduler.config.nominal_latency)]_vars

\* C22: plan returns commit_deadline = hints.latest_commit, frame_index =
\* tick.frame_index, output = tick.output and pipeline_depth = the current
\* depth, and leaves the scheduler (depth, average, safety margin, counters)
\* as it was.
C22_PlanCarriesInputsAndKeepsState ==
    [][\A tick \in TickInputs, hints \in HintInputs :
          Plan(tick, hints)
          => /\ frame_plan'.commit_deadline = hints.latest_commit
             /\ frame_plan'.frame_index = tick.frame_index
             /\ frame_plan'.output = tick.output
             /\ frame_plan'.pipeline_depth = scheduler.pipeline_depth
             /\ scheduler' = scheduler]_vars

\* A plan taken between observes: the depth it carries is the current one and
\* no longer the initial one, a streak is running, and the margin is set.
C22_Witness ==
    /\ frame_plan.frame_index = 2
    /\ frame_plan.output = 1
    /\ frame_plan.pipeline_depth = scheduler.pipeline_depth
    /\ scheduler.pipeline_depth # scheduler.config.initial_depth
    /\ scheduler.consecutive_misses > 0
    /\ scheduler.safety_margin_ticks > 0

\* ---- hints and present_feedback
\* C23: PresentFeedback::new always returns missed_deadline = Some(..): when
\* the actual present time and hints.desired_present are both known it is
\* Some(actual_present > desired_present), otherwise
\* Some(submitted_at > hints.latest_commit); with equal times it is
\* Some(FALSE) in both cases.
C23_NewComparesStrictly ==
    [][\A s \in SubmitInputs, a \in ActualInputs :
          New(0, s, a)
          => LET hints == present_hints.value
                 missed == present_feedback'.value.missed_deadline
             IN  /\ missed.some
                 /\ (a.some /\ hints.desired_present.some)
                       => /\ missed.value = (a.value > hints.desired_present.value)
                          /\ a.value = hints.desired_present.value
                                => missed = Some(FALSE)
                 /\ ~(a.some /\ hints.desired_present.some)
                       => /\ missed.value = (s > hints.latest_commit)
                          /\ s = hints.latest_commit => missed = Some(FALSE)]_vars

\* A feedback presented exactly at the desired time although it was committed
\* after the latest commit time: not missed.
C23_Witness ==
    /\ present_feedback.some /\ present_hints.some /\ ~pending.some
    /\ present_feedback.value.expected_present = present_hints.value.desired_present
    /\ present_feedback.value.actual_present.some
    /\ present_feedback.value.actual_present = present_feedback.value.expected_present
    /\ present_feedback.value.submitted_at > present_hints.value.latest_commit
    /\ present_feedback.value.missed_deadline = Some(FALSE)

\* C24: PendingFeedback{hints, build_start, submitted_at}.resolve(a) equals
\* PresentFeedback::new(hints, build_start, submitted_at, a) for every a:
\* resolve(None) gives Some(submitted_at > latest_commit), and resolve(Some(t))
\* with t > desired_present gives Some(TRUE) also when submitted_at <=
\* latest_commit.
C24_ResolveEqualsNew ==
    [][\A a \in ActualInputs :
          Resolve(a)
          => LET p == pending.value
                 verdict == present_feedback'.value.missed_deadline
             IN  /\ present_feedback'.value =
                        PresentFeedback_new(p.hints, p.build_start, p.submitted_at, a)
                 /\ ~a.some => verdict = Some(p.submitted_at > p.hints.latest_commit)
                 /\ (a.some /\ p.hints.desired_present.some
                       /\ a.value > p.hints.desired_present.value)
                       => verdict = Some(TRUE)]_vars

\* A deferred feedback resolved with a present time after the desired one,
\* committed in time: missed.
C24_Witness ==
    /\ pending.some /\ present_feedback.some
    /\ pending.value.submitted_at <= pending.value.hints.latest_commit
    /\ pending.value.hints.desired_present.some
    /\ present_feedback.value.submitted_at = pending.value.submitted_at
    /\ present_feedback.value.expected_present = pending.value.hints.desired_present
    /\ present_feedback.value.actual_present.some
    /\ present_feedback.value.actual_present.value > pending.value.hints.desired_present.value
    /\ present_feedback.value.missed_deadline = Some(TRUE)

\* C25: compute_present_hints returns desired_present = tick.predicted_present
\* and latest_commit = desired_present - safety_margin, or tick.now when the
\* tick has no prediction or the margin is larger than the predicted time.
C25_StandardHints ==
    [][\A tick \in TickInputs, m \in MarginInputs :
          ComputeHints(tick, m)
          => LET hints == present_hints'.value
                 pp == tick.predicted_present
             IN  /\ hints.desired_present = pp
                 /\ (pp.some /\ pp.value >= m) => hints.latest_commit = pp.value - m
                 /\ (~pp.some \/ pp.value < m) => hints.latest_commit = tick.now]_vars

\* Hints computed with a margin larger than the predicted present time, from a
\* tick whose `now` is later than the prediction: latest_commit is `now`.
C25_Witness ==
    /\ present_hints.some
    /\ present_hints.value.desired_present = Some(1)
    /\ present_hints.value.latest_commit = MaxTicks - 1
    /\ ~present_feedback.some

\* ---------------------------------------------------------------- C26, C27
\* The event a call leaves in the recording if every field the schema keeps
\* is kept as it was passed: the struct itself, or the frame index and the
\* number of elements of the slice.
Preserved(call) ==
    CASE call.method = "on_frame_tick" -> [variant |-> "FrameTick", e |-> call.e]
      [] call.method = "on_frame_plan" -> [variant |-> "FramePlan", e |-> call.e]
      [] call.method = "on_phase_begin" -> [variant |-> "PhaseBegin", e |-> call.e]
      [] call.method = "on_phase_end" -> [variant |-> "PhaseEnd", e |-> call.e]
      [] call.method = "on_submit" -> [variant |-> "Submit", e |-> call.e]
      [] call.method = "on_present_feedback" ->
            [variant |-> "PresentFeedback", e |-> call.e]
      [] call.method = "on_frame_summary" ->
            [variant |-> "FrameSummary", e |-> call.e]
      [] call.method = "on_layer_changes" ->
            [variant |-> "LayerChangesCount", frame_index |-> call.frame_index,
             count |-> call.n_elems]
      [] call.method = "on_damage_rects" ->
            [variant |-> "DamageRectsCount", frame_index |-> call.frame_index,
             count |-> call.n_elems]

\* The same with the count of a rich event stopping at the largest u32.
PreservedCapped(call) ==
    IF call.method \in {"on_layer_changes", "on_damage_rects"}
    THEN [Preserved(call) EXCEPT !.count = Min(call.n_elems, U32_MAX)]
    ELSE Preserved(call)

\* The calls of next made so far returned `expected` in order and, from
\* there up to the first None included, None.
YieldsThenNone(expected) ==
    \A i \in 1..Len(yielded) :
        /\ i <= Len(expected) => yielded[i] = Some(expected[i])
        /\ i = Len(expected) + 1 => yielded[i] = None

DecodingWhole == fed.some /\ fed.value.tail = "none"

\* C26: decoding the recorder's bytes yields one event per sink call, in call
\* order, each equal to what was passed on every field the schema keeps (a
\* rich event keeps the frame index and the number of elements of its slice),
\* and then the end; so too for no call at all.
C26_RoundTrip ==
    DecodingWhole =>
        /\ YieldsThenNone([i \in 1..Len(sunk) |-> Preserved(sunk[i])])
        /\ \A i \in 1..Len(yielded) : i > Len(sunk) => yielded[i] = None

\* C26 (as amended): the same, the count of a rich event being the number of
\* elements of its slice or u32::MAX, whichever is smaller.
C26_RoundTripCapped ==
    DecodingWhole =>
        /\ YieldsThenNone([i \in 1..Len(sunk) |-> PreservedCapped(sunk[i])])
        /\ \A i \in 1..Len(yielded) : i > Len(sunk) => yielded[i] = None

\* A whole recording of two calls of different kinds, one of them a rich
\* event over a slice longer than u32::MAX, decoded to its end.
C26_Witness ==
    /\ DecodingWhole
    /\ Len(sunk) = MaxEvents
    /\ sunk[1].method = "on_frame_summary"
    /\ sunk[2].method = "on_layer_changes" /\ sunk[2].n_elems > U32_MAX
    /\ Len(yielded) = MaxEvents + 1
    /\ yielded[MaxEvents].some /\ ~yielded[MaxEvents + 1].some

\* C27: when the bytes are the encodings of n events followed by a strict
\* prefix of one more record, or by a byte that is no known tag, the decoder
\* yields those n events and then None; nothing is built from what follows
\* the n records.
C27_TruncationEndsIteration ==
    (fed.some /\ fed.value.tail \in {"prefix", "unknown"}) =>
        YieldsThenNone([i \in 1..Len(fed.value.events) |->
                            PreservedCapped(fed.value.events[i])])

\* A record cut after its tag and some of its fields, behind one whole
\* record, and the decoder called past the end.
C27_Witness ==
    /\ fed.some /\ fed.value.tail = "prefix"
    /\ Len(fed.value.events) = 1
    /\ Len(decoder.value.data) > Len(Encoding(fed.value.events[1])) + U64Bytes + 1
    /\ Len(yielded) = 2
    /\ yielded[1].some /\ ~yielded[2].some

\* ---------------------------------------------------------------------- C28
\* Before the call every list of the caller's FrameChanges, and the store's
\* traversal_order, has room for what the call puts in it.
SufficientCapacity ==
    /\ \A f \in ListFields : capacity.changes[f] >= Len(changes'[f])
    /\ capacity.traversal_order >= Len(traversal_order')

\* C28: a call of evaluate_into for which the caller's FrameChanges and the
\* store's arrays already have sufficient capacity makes no allocation.
C28_NoAllocationWithCapacity ==
    [][(steps' = steps + 1 /\ last' = "evaluate" /\ SufficientCapacity)
           => allocs' = 0]_vars

\* ---------------------------------------------------------------------- C29
\* The items the pops returned, in pop order.
PoppedItems ==
    LET some == SelectSeq(popped, LAMBDA got : got.some)
    IN [i \in 1..Len(some) |-> some[i].value]

\* w is v without some of its elements, the others in their order.
RECURSIVE IsSubsequence(_, _)
IsSubsequence(w, v) ==
    IF w = <<>> THEN TRUE
    ELSE IF v = <<>> THEN FALSE
    ELSE IF Head(w) = Head(v) THEN IsSubsequence(Tail(w), Tail(v))
    ELSE IsSubsequence(w, Tail(v))

\* C29: with capacity c (0 promoted to 1), after any pushes and pops,
\* len <= c; what is retained is the most recently pushed items, in push
\* order; the pops returned items in push order, each the oldest retained
\* one (None on an empty queue); and a push onto a full queue discards
\* exactly the oldest retained item and adds one to dropped_count, any other
\* push or pop discarding nothing.
C29_DropOldestFifo ==
    [][(queue.some /\ queue'.some) =>
        LET c == IF requested = 0 THEN 1 ELSE requested
            before == queue.value.items
            after == queue'.value.items
            gone == SubSeq(pushed', 1, Len(pushed') - Len(after))
        IN /\ BoundedQueue_len(queue'.value) <= c
           /\ after = SubSeq(pushed', Len(pushed') - Len(after) + 1, Len(pushed'))
           /\ IsSubsequence(PoppedItems', gone)
           /\ dropped_count(queue'.value) = Len(gone) - Len(PoppedItems')
           /\ pushed' # pushed =>
                 IF Len(before) = c
                 THEN /\ after = Tail(before) \o <<pushed'[Len(pushed')]>>
                      /\ dropped_count(queue'.value) = dropped_count(queue.value) + 1
                 ELSE /\ after = before \o <<pushed'[Len(pushed')]>>
                      /\ dropped_count(queue'.value) = dropped_count(queue.value)
           /\ popped' # popped =>
                 /\ popped'[Len(popped')] =
                        IF before = <<>> THEN None ELSE Some(Head(before))
                 /\ after = IF before = <<>> THEN <<>> ELSE Tail(before)
                 /\ dropped_count(queue'.value) = dropped_count(queue.value)]_vars

\* A full queue of capacity 2 that lost its oldest item to a third push and
\* was then popped until empty.
C29_Witness ==
    /\ queue.some
    /\ requested = 2 /\ Len(pushed) = 3
    /\ popped = <<Some(2), Some(3), None>>
    /\ dropped_count(queue.value) = 1 /\ is_empty(queue.value)

\* ---------------------------------------------------------------------- C30
\* Entry i (from 0) of a ring of `size` entries read oldest to newest after
\* the samples of `seen`: the seed in the size - k oldest places when k < size,
\* then the last min(k, size) frame deltas in the order they were observed.
OldestToNewest(size, seen, i) ==
    LET k == Len(seen)
    IN IF i < size - k THEN seeded ELSE seen[k - size + i + 1]

\* C30: after k observe calls on a tracker of size N, frame_deltas() holds
\* the last min(k, N) frame_delta_ms values in observation order as its
\* final entries, after the seed value in the N - k oldest positions when
\* k < N; sparkline_ascii draws the glyphs of those same values in that
\* order.
C30_RingReadOldestToNewest ==
    (tracker.some /\ sync_report # Some(SyncPanic)) =>
        LET self == tracker.value
        IN /\ DOMAIN frame_deltas(self) = 0..(self.size - 1)
           /\ \A i \in 0..(self.size - 1) :
                 /\ frame_deltas(self)[i] = OldestToNewest(self.size, observed, i)
                 /\ sparkline_ascii(self, SparkMin, SparkMax)[i] =
                        LEVELS[Level(OldestToNewest(self.size, observed, i),
                                     SparkMin, SparkMax) + 1]

\* A ring of three entries that has wrapped: four samples, the first one
\* overwritten, the values not all equal.
C30_Witness ==
    /\ tracker.some /\ tracker.value.size = 3
    /\ observed = <<8, 16, 33, 16>>
    /\ frame_deltas(tracker.value) = [i \in 0..2 |-> <<16, 33, 16>>[i + 1]]
    /\ sparkline_ascii(tracker.value, SparkMin, SparkMax)
           = [i \in 0..2 |-> <<"-", "@", "-">>[i + 1]]

\* ---------------------------------------------------------------------- C37
\* C37: once next has returned None, for a truncated record or an unknown
\* tag, every later call of next on the same iterator returns None: no event
\* is produced from the bytes behind the place where decoding stopped.
C37_EndIsPermanent ==
    \A i \in 1..Len(yielded) : \A j \in 1..Len(yielded) :
        (i < j /\ ~yielded[i].some) => ~yielded[j].some

\* ---- drain order
PosIn(list, x) == CHOOSE i \in 1 .. Len(list) : list[i] = x

\* In `list`, every slot whose parent is listed too comes after its parent.
ParentFirst(list) ==
    \A c \in Range(list) :
        (c \in Live /\ parent[c] # INVALID /\ parent[c] \in Range(list)) =>
            PosIn(list, parent[c]) < PosIn(list, c)

\* C31: the TRANSFORM and OPACITY drains process layers parent before child:
\* whenever a layer and its parent are both in the drained set of one evaluate,
\* the parent is recomputed and listed (in transforms, in opacities) before the
\* child, whatever calls came before.
C31_DrainsParentBeforeChild ==
    Evaluated => (ParentFirst(changes.transforms) /\ ParentFirst(changes.opacities))

\* The same statement for the stores that are forests mirrored by the
\* tracker's edges.
DrainsParentBeforeChildWellFormed ==
    (Evaluated /\ WellFormed) =>
        (ParentFirst(changes.transforms) /\ ParentFirst(changes.opacities))

\* ---- the topology flag
\* C32: topology_changed is true in an evaluate's change-set iff that evaluate
\* is the store's first or a create_layer, destroy_layer, add_child,
\* remove_from_parent, reparent or insert_before call was made since the
\* previous evaluate; the property setters alone never set it.
C32_TopologyChangedIffRestructured ==
    Evaluated => (changes.topology_changed <=> (since.first \/ since.restructured))

\* An evaluate that follows setter calls only: the flag is false while the
\* change-set reports the setters.
C32_Witness ==
    /\ Evaluated
    /\ ~since.first /\ ~since.restructured
    /\ ~changes.topology_changed
    /\ changes.transforms # <<>>
    /\ changes.clips # <<>>

\* ---- the tracker's edges
\* C33: the dirty tracker's dependency graph mirrors the tree: after every
\* store operation, in the TRANSFORM and in the OPACITY channel the dependency
\* edges are exactly the edges child -> parent(child) of the live layers that
\* have a parent, none left over and none missing.
C33_DepsMirrorTree ==
    /\ deps[TRANSFORM] = TreeEdges
    /\ deps[OPACITY] = TreeEdges

\* ---- slot storage
\* The layers alive now: the handles issued and not destroyed.
Alive == issued \ destroyed

AliveSlots == {id.idx : id \in Alive}

\* C34: slot storage is bounded by the high-water mark of concurrently live
\* layers: the free list holds no slot twice and no slot of a live layer, every
\* slot below len is live or free, len = (number of live layers) + (length of
\* the free list), len never exceeds the largest number of layers that were
\* alive at the same time, and the arrays grow only in a call made while the
\* free list is empty.
C34_SlotsBoundedByPeak ==
    /\ [](/\ Cardinality(Range(free_list)) = Len(free_list)
          /\ Range(free_list) \cap AliveSlots = {}
          /\ Range(free_list) \cup AliveSlots = Slots
          /\ len = Cardinality(Alive) + Len(free_list)
          /\ len <= peak)
    /\ [][len' # len => (len' = len + 1 /\ free_list = <<>>)]_vars

\* Four layers were created in two slots: each slot was recycled, no slot was
\* added for the third and the fourth layer.
C34_Witness ==
    /\ Cardinality(issued) = 4
    /\ Cardinality(Alive) = 2
    /\ len = 2
    /\ peak = 2
    /\ free_list = <<>>

\* ---- raw-index access
\* The slots the change-set and the traversal order hand to the raw-index
\* getters.
ListedSlots ==
    Range(changes.transforms) \cup Range(changes.opacities)
        \cup Range(changes.clips) \cup Range(changes.content)
        \cup Range(changes.hidden) \cup Range(changes.unhidden)
        \cup Range(traversal_order)

\* C35: slot indices taken from the current FrameChanges or traversal_order are
\* safe for raw-index access: after an evaluate every index in transforms,
\* opacities, clips, content, hidden, unhidden and traversal_order is the slot
\* of a layer alive at that evaluate, and every index in added and removed is
\* below len.
C35_ListedSlotsAreAlive ==
    Evaluated =>
        /\ ListedSlots \subseteq AliveSlots
        /\ \A idx \in Range(changes.added) \cup Range(changes.removed) :
              0 <= idx /\ idx < len

\* An evaluate after a layer whose clip had been set was destroyed and another
\* layer was set: removed names a slot that holds no live layer, the lists
\* name live slots only.
C35_Witness ==
    /\ Evaluated
    /\ \E idx \in Range(changes.removed) : idx \notin AliveSlots
    /\ \E id \in destroyed : id.idx \notin AliveSlots /\ clip[id.idx] = "Rect"
    /\ changes.clips # <<>>
    /\ changes.transforms # <<>>

\* ---- the affine clock
\* C36: AffineClock::reset resets all accumulated state: after a reset
\* media_time_at returns None until the next update, and from then on every
\* media_time_at call returns what a clock newly built with the same
\* constructor parameters and fed the same observations returns.
C36_ResetIsLikeNew == answer.some => answer.value.got = answer.value.fresh

\* The first half alone: between a reset and the next update media_time_at
\* returns None.
NoneUntilUpdated ==
    (answer.some /\ ~twin.value.initialized) => answer.value.got = None

\* ---- the web frame loop
\* The last frame's feedback reports a miss if the frame was submitted
\* strictly after its tick's now.
LateIsMissed ==
    on_tick.feedback.some =>
        /\ on_tick.feedback.value.expected_present = None
        /\ on_tick.feedback.value.submitted_at > on_tick.tick.value.now
              => on_tick.feedback.value.missed_deadline = Some(TRUE)

\* The depth does not fall while every frame is submitted late.
DepthNeverFallsWhileLate ==
    (IsAdaptive /\ late') => scheduler'.pipeline_depth >= scheduler.pipeline_depth

HasElement(idx) == get_element(presenter, idx).some

\* C39: after presenter.apply(store, changes) with the change-set of the
\* evaluate just run, the presenter holds an element for a slot iff the slot
\* is that of a live layer, whatever create_layer and destroy_layer calls were
\* made between the evaluates.
C39_ElementsAreLiveSlots ==
    Evaluated => \A idx \in 0 .. (MaxSlots - 1) : HasElement(idx) <=> idx \in AliveSlots

\* The children of the container are the elements the presenter holds.
ContainerHoldsElements ==
    Evaluated =>
        Range(presenter.container) =
            {presenter.elements[i].value :
                i \in {j \in 1 .. Len(presenter.elements) : presenter.elements[j].some}}

\* C40: a RafLoop keeps at most one requestAnimationFrame registration
\* pending at any time, so the tick callback receives at most one tick in an
\* animation frame, whatever the start and stop calls, those made from inside
\* the tick callback included.  (A stopped loop's closure returns before it
\* calls the callback: RunClosure.)
Registrations == Len(browser.pending) + Len(browser.queue)

C40_OneRegistrationPending ==
    /\ Registrations <= 1
    /\ delivered <= 1

====
